---- MODULE Spec2Model ----
(***************************************************************************)
(* A model of faf (Fire And Forget): the intent handlers of tools.py, the  *)
(* validators and MCP handlers of mcp_tools.py, and the dispatch,          *)
(* resolution and persistence code of main.py.                             *)
(*                                                                         *)
(* Python strings are sequences of one-character strings, so that          *)
(* replace, strip, startswith and the regular expression of the date       *)
(* rewrite are computed character by character as Python computes them.    *)
(* Names the code never takes apart (tool names, dictionary keys,          *)
(* exception classes) are plain TLA+ strings.                              *)
(***************************************************************************)
EXTENDS Integers, Sequences, FiniteSets, TLC

VARIABLES
    pc,      \* position of the running invocation
    entry,   \* the entry point (handler) of the invocation
    args,    \* the inputs the invocation was given
    llm,     \* the completion() calls made so far, in order
    ran,     \* the sync intent handlers executed so far, in order
    out,     \* the value the invocation returned or the exception it raised
    prev,    \* the outcome of the preceding call, when a result is fed back
    fs       \* the output directory: whether it exists, its files, write_to_file calls

vars == <<pc, entry, args, llm, ran, out, prev, fs>>

-----------------------------------------------------------------------------
(* Python str operations *)

Whitespace == {" ", "\t", "\n"}

Digits == {"0", "1", "2", "3", "4", "5", "6", "7", "8", "9"}

\* s.startswith(p)
StartsWith(s, p) == Len(s) >= Len(p) /\ SubSeq(s, 1, Len(p)) = p

\* sub in s
Contains(s, sub) ==
    \E i \in 1..(Len(s) - Len(sub) + 1) : SubSeq(s, i, i + Len(sub) - 1) = sub

\* c in s, for one character
HasChar(s, c) == \E i \in 1..Len(s) : s[i] = c

Drop(s, n) == SubSeq(s, n + 1, Len(s))

RECURSIVE Replace(_, _, _)
\* s.replace(old, new) for a non-empty old: leftmost, non-overlapping occurrences
Replace(s, old, new) ==
    IF Len(s) < Len(old) THEN s
    ELSE IF StartsWith(s, old) THEN new \o Replace(Drop(s, Len(old)), old, new)
    ELSE <<Head(s)>> \o Replace(Tail(s), old, new)

RECURSIVE LStrip(_)
LStrip(s) == IF s # <<>> /\ Head(s) \in Whitespace THEN LStrip(Tail(s)) ELSE s

RECURSIVE RStrip(_)
RStrip(s) ==
    IF s # <<>> /\ s[Len(s)] \in Whitespace THEN RStrip(SubSeq(s, 1, Len(s) - 1)) ELSE s

\* s.strip()
Strip(s) == RStrip(LStrip(s))

LowerChar(c) ==
    CASE c = "T" -> "t" [] c = "H" -> "h" [] c = "I" -> "i" [] c = "S" -> "s"
      [] c = "V" -> "v" [] c = "A" -> "a" [] c = "M" -> "m" [] c = "B" -> "b"
      [] c = "C" -> "c" [] c = "J" -> "j" [] c = "P" -> "p" [] c = "O" -> "o"
      [] OTHER -> c

\* s.lower()
Lower(s) == [i \in 1..Len(s) |-> LowerChar(s[i])]

-----------------------------------------------------------------------------
(* re.sub(r'in(\d+)(day|week|month)', r'\1\2', date) *)

Units == {<<"d", "a", "y">>, <<"w", "e", "e", "k">>, <<"m", "o", "n", "t", "h">>}

RECURSIVE DigitRun(_)
\* the length of the longest run of digits s starts with: what a greedy \d+ takes
DigitRun(s) == IF s # <<>> /\ Head(s) \in Digits THEN 1 + DigitRun(Tail(s)) ELSE 0

\* The length of the match of in(\d+)(day|week|month) at the start of s, 0 when
\* there is none.  \d+ is greedy and no unit starts with a digit, so giving
\* digits back never produces a match the greedy run does not.
InMatchLen(s) ==
    IF StartsWith(s, <<"i", "n">>) /\ DigitRun(Drop(s, 2)) > 0
    THEN LET k == DigitRun(Drop(s, 2))
             rest == Drop(s, 2 + k)
         IN  IF \E u \in Units : StartsWith(rest, u)
             THEN 2 + k + Len(CHOOSE u \in Units : StartsWith(rest, u))
             ELSE 0
    ELSE 0

RECURSIVE ReSubIn(_)
\* the substitution: leftmost matches, scanning on after each one
ReSubIn(s) ==
    IF s = <<>> THEN s
    ELSE IF InMatchLen(s) > 0
         THEN SubSeq(s, 3, InMatchLen(s)) \o ReSubIn(Drop(s, InMatchLen(s)))
         ELSE <<Head(s)>> \o ReSubIn(Tail(s))

-----------------------------------------------------------------------------
(* Python values and json.  A value carries its type: a dict, None, a str  *)
(* given by its characters, or the str that json.dumps made of a document. *)
(* A str given by its characters is decoded by json.loads character by     *)
(* character (the arguments of a tool call, the sentinel of save_url); the *)
(* str json.dumps made of a record decodes to that record.                 *)

Dict(d) == [t |-> "dict", v |-> d]
Str(s) == [t |-> "str", v |-> s]
None == [t |-> "none", v |-> "None"]

IsStr(x) == x.t \in {"str", "json"}

\* json.dumps(value): the text that encodes value
JsonDumps(value) == [t |-> "json", v |-> value]

Return(value) == [kind |-> "return", val |-> value]
Raise(exc, msg) == [kind |-> "raise", val |-> [exc |-> exc, msg |-> msg]]

\* except ValueError: json.JSONDecodeError is a subclass of ValueError
IsValueError(exc) == exc \in {"ValueError", "JSONDecodeError"}

\* The names of the fields the handlers take, in the order the signatures give
\* them, and their characters in a JSON text
FieldOrder == <<"prompt", "date", "message", "url", "title", "request", "topic">>

FieldNames == {FieldOrder[i] : i \in 1..Len(FieldOrder)}

KeyChars(k) ==
    CASE k = "prompt" -> <<"p","r","o","m","p","t">>
      [] k = "date" -> <<"d","a","t","e">>
      [] k = "message" -> <<"m","e","s","s","a","g","e">>
      [] k = "url" -> <<"u","r","l">>
      [] k = "title" -> <<"t","i","t","l","e">>
      [] k = "request" -> <<"r","e","q","u","e","s","t">>
      [] k = "topic" -> <<"t","o","p","i","c">>

\* the key a JSON text spells; every key that is no field name counts as "unknown"
KeyOf(chars) ==
    IF \E k \in FieldNames : KeyChars(k) = chars
    THEN CHOOSE k \in FieldNames : KeyChars(k) = chars
    ELSE "unknown"

RECURSIVE JsonEscape(_)
\* the characters of s as a JSON string holds them: '"' and '\' behind a '\'
JsonEscape(s) ==
    IF s = <<>> THEN <<>>
    ELSE (IF Head(s) \in {"\"", "\\"} THEN <<"\\", Head(s)>> ELSE <<Head(s)>>)
         \o JsonEscape(Tail(s))

JsonString(s) == <<"\"">> \o JsonEscape(s) \o <<"\"">>

RECURSIVE JsonMembers(_, _)
JsonMembers(keys, m) ==
    IF keys = <<>> THEN <<>>
    ELSE JsonString(KeyChars(Head(keys))) \o <<":", " ">> \o JsonString(m[Head(keys)])
         \o (IF Tail(keys) = <<>> THEN <<>> ELSE <<",", " ">>)
         \o JsonMembers(Tail(keys), m)

\* The JSON text of a mapping from field names to strs, character by character,
\* as json.dumps writes it: {"prompt": "hi", "message": "hi"}
JsonObjectText(m) ==
    Str(<<"{">> \o JsonMembers(SelectSeq(FieldOrder, LAMBDA k : k \in DOMAIN m), m) \o <<"}">>)

NoParse == [ok |-> FALSE, val |-> <<>>]

\* how many '\' stand in a row just before position i of s
Backslashes(s, i) ==
    CHOOSE n \in 0..(i - 1) :
        /\ \A j \in 1..n : s[i - j] = "\\"
        /\ n = i - 1 \/ s[i - n - 1] # "\\"

\* the character at position i of s is escaped: an odd number of '\' before it
Escaped(s, i) == Backslashes(s, i) % 2 = 1

\* the positions of the quotes that open or close a JSON string of s
Quotes(s) == {i \in 1..Len(s) : s[i] = "\"" /\ ~Escaped(s, i)}

\* the j-th position of a set of positions
Nth(S, j) == CHOOSE i \in S : Cardinality({x \in S : x < i}) = j - 1

\* what s holds strictly between positions a and b, whitespace left out
Gap(s, a, b) == SelectSeq(SubSeq(s, a + 1, b - 1), LAMBDA c : c \notin Whitespace)

\* the JSON string between the quotes at a and b is well formed: no raw control
\* character, and no escape but \" \\ \/ \n \t
StringOk(s, a, b) ==
    \A p \in (a + 1)..(b - 1) :
        /\ s[p] \notin {"\n", "\t"}
        /\ Escaped(s, p) => s[p] \in {"\"", "\\", "/", "n", "t"}

RECURSIVE Unescape(_, _, _)
\* the characters the JSON string of s from position p up to the quote at b
\* stands for
Unescape(s, p, b) ==
    IF p >= b THEN <<>>
    ELSE (IF ~Escaped(s, p)
          THEN IF s[p] = "\\" THEN <<>> ELSE <<s[p]>>
          ELSE IF s[p] = "n" THEN <<"\n">> ELSE IF s[p] = "t" THEN <<"\t">> ELSE <<s[p]>>)
         \o Unescape(s, p + 1, b)

\* the positions of the quotes of s in order
QuoteSeq(s) == [j \in 1..Cardinality(Quotes(s)) |-> Nth(Quotes(s), j)]

\* the key and the value of the j-th member of the object s, whose quotes are at
MemberKey(s, at, j) == KeyOf(Unescape(s, at[4 * j - 3] + 1, at[4 * j - 2]))

MemberValue(s, at, j) == Unescape(s, at[4 * j - 1] + 1, at[4 * j])

\* s is { "key": "value", ... } with one member or more: four quotes a member,
\* ':' inside a member, ',' between members, braces around them, whitespace
\* allowed between the tokens
WellFormed(s, at) ==
    /\ Len(at) % 4 = 0
    /\ Gap(s, 0, at[1]) = <<"{">>
    /\ Gap(s, at[Len(at)], Len(s) + 1) = <<"}">>
    /\ \A j \in 1..(Len(at) \div 2) : StringOk(s, at[2 * j - 1], at[2 * j])
    /\ \A j \in 1..(Len(at) \div 4) : Gap(s, at[4 * j - 2], at[4 * j - 1]) = <<":">>
    /\ \A j \in 1..(Len(at) \div 4 - 1) : Gap(s, at[4 * j], at[4 * j + 1]) = <<",">>

\* the mapping the members make, a repeated key keeping its last value
Members(s, at) ==
    [k \in {MemberKey(s, at, j) : j \in 1..(Len(at) \div 4)} |->
        MemberValue(s, at, CHOOSE j \in 1..(Len(at) \div 4) :
                               /\ MemberKey(s, at, j) = k
                               /\ \A i \in (j + 1)..(Len(at) \div 4) : MemberKey(s, at, i) # k)]

ParseQuoted(s, at) ==
    IF LStrip(s) = <<>> \/ Head(LStrip(s)) # "{" THEN NoParse
    ELSE IF Len(at) = 0
    THEN IF Gap(s, 0, Len(s) + 1) = <<"{", "}">> THEN [ok |-> TRUE, val |-> <<>>]
         ELSE NoParse
    ELSE IF WellFormed(s, at) THEN [ok |-> TRUE, val |-> Members(s, at)]
    ELSE NoParse

\* json.loads of a text given by its characters, for the documents the program
\* is handed that way: an object whose values are strs.  Any other text is one
\* json.loads rejects.
ParseObject(s) == ParseQuoted(s, QuoteSeq(s))

Decode(parsed) ==
    IF parsed.ok THEN Return(Dict(parsed.val))
    ELSE Raise("JSONDecodeError", <<"Expecting value">>)

\* json.loads of the characters s
JsonLoadsChars(s) == Decode(ParseObject(s))

\* json.loads(text); the characters of the text are worked out once, then decoded
JsonLoads(text) ==
    IF text.t = "json" THEN Return(text.v)
    ELSE CHOOSE decoded \in {JsonLoadsChars(s) : s \in {text.v}} : TRUE

-----------------------------------------------------------------------------
(* tools.py: the five sync intent handlers *)

\* the date rewrite of follow_up_then with the regular expression applied first
NormalizeDateRegexFirst(date) ==
    LET d0 == ReSubIn(date)
        d1 == Replace(d0, <<"t", "h", "i", "s">>, <<>>)
        d2 == Replace(d1, <<" ">>, <<>>)
        d3 == Replace(d2, <<".">>, <<>>)
        d4 == Replace(d3, <<",">>, <<>>)
    IN  Replace(d4, <<":">>, <<>>)

\* the date rewrite of follow_up_then
NormalizeDate(date) ==
    LET d1 == Replace(date, <<"t", "h", "i", "s">>, <<>>)
        d2 == Replace(d1, <<" ">>, <<>>)
        d3 == Replace(d2, <<".">>, <<>>)
        d4 == Replace(d3, <<",">>, <<>>)
        d5 == Replace(d4, <<":">>, <<>>)
    IN  ReSubIn(d5)

Record(prompt, command, payload) ==
    [prompt |-> prompt, command |-> command, payload |-> payload]

follow_up_then(a) ==
    JsonDumps(Dict(Record(a.prompt, "follow_up_then",
                          [date |-> NormalizeDate(a.date), message |-> a.message])))

note_to_self(a) ==
    JsonDumps(Dict(Record(a.prompt, "note_to_self", [message |-> a.message])))

\* "Error: The input is not a valid URL."
SaveUrlError ==
    Str(<<"E","r","r","o","r",":"," ","T","h","e"," ","i","n","p","u","t"," ","i","s"," ",
          "n","o","t"," ","a"," ","v","a","l","i","d"," ","U","R","L",".">>)

save_url(a) ==
    IF ~StartsWith(a.url, <<"h", "t", "t", "p">>) \/ ~HasChar(a.url, ".") \/ HasChar(a.url, " ")
    THEN SaveUrlError
    ELSE JsonDumps(Dict(Record(a.prompt, "save_url", [url |-> a.url])))

\* journaling_topic with the command of note_to_self
journaling_topic_as_note(a) ==
    JsonDumps(Dict(Record(a.prompt, "note_to_self", [topic |-> a.topic])))

journaling_topic(a) ==
    JsonDumps(Dict(Record(a.prompt, "journaling_topic", [topic |-> a.topic])))

\* va_request with the request left out of the payload
va_request_title_only(a) ==
    JsonDumps(Dict(Record(a.prompt, "va_request", [title |-> a.title])))

va_request(a) ==
    JsonDumps(Dict(Record(a.prompt, "va_request", [title |-> a.title, request |-> a.request])))

-----------------------------------------------------------------------------
(* main.py: dispatch *)

\* the keys of tool_functions
ToolFunctions ==
    {"follow_up_then", "note_to_self", "save_url", "va_request", "journaling_topic"}

\* the parameters of each sync handler; none has a default
Params(name) ==
    CASE name = "follow_up_then" -> {"prompt", "date", "message"}
      [] name = "note_to_self" -> {"prompt", "message"}
      [] name = "save_url" -> {"prompt", "url"}
      [] name = "va_request" -> {"prompt", "title", "request"}
      [] name = "journaling_topic" -> {"prompt", "topic"}

\* param.default is not inspect.Parameter.empty: no sync handler gives a
\* parameter a default
HasDefault(name, param) == FALSE

\* get_tool_function_info(tool_functions[name])["function"]["parameters"]["required"]
Required(name) == {param \in Params(name) : ~HasDefault(name, param)}

\* inspect.signature(tool_func).parameters: the parameters in signature order
Signature(name) == SelectSeq(FieldOrder, LAMBDA k : k \in Params(name))

\* get_tool_function_info(tool_func), the description texts left out: the
\* manifest entry with the function's __name__, one 'string' property for each
\* parameter, and the parameters without a default as 'required'
get_tool_function_info(name) ==
    [type |-> "function",
     function |->
        [name |-> name,
         parameters |->
            [type |-> "object",
             properties |-> [k \in Params(name) |-> [type |-> "string"]],
             required |-> SelectSeq(Signature(name), LAMBDA k : ~HasDefault(name, k))]]]

collect_functions_info(funcs) == [i \in 1..Len(funcs) |-> get_tool_function_info(funcs[i])]

\* tools_list() with the handlers in the order main.py imports them
tools_list_import_order ==
    collect_functions_info(
        <<"follow_up_then", "save_url", "note_to_self", "va_request", "journaling_topic">>)

tools_list ==
    collect_functions_info(
        <<"follow_up_then", "note_to_self", "save_url", "va_request", "journaling_topic">>)

\* tool_functions[name](**a), the arguments bound
Handler(name, a) ==
    CASE name = "follow_up_then" -> follow_up_then(a)
      [] name = "note_to_self" -> note_to_self(a)
      [] name = "save_url" -> save_url(a)
      [] name = "va_request" -> va_request(a)
      [] name = "journaling_topic" -> journaling_topic(a)

\* call_tool_function with the name looked up before the arguments are decoded
CallToolFunctionNameFirst(action) ==
    IF action.name \notin ToolFunctions
    THEN [outcome |-> Raise("ValueError", <<"Unknown function", action.name>>), ran |-> <<>>]
    ELSE LET arguments == IF IsStr(action.arguments)
                          THEN JsonLoads(action.arguments)
                          ELSE Return(action.arguments)
         IN  IF arguments.kind = "raise" THEN [outcome |-> arguments, ran |-> <<>>]
             ELSE IF arguments.val.t = "dict" /\ DOMAIN arguments.val.v = Params(action.name)
             THEN [outcome |-> Return([tool_call_name |-> action.name,
                                       output |-> Handler(action.name, arguments.val.v)]),
                   ran |-> <<action.name>>]
             ELSE [outcome |-> Raise("TypeError", <<"arguments">>), ran |-> <<>>]

\* call_tool_function binding the arguments as they come, a str undecoded
CallToolFunctionNoDecode(action) ==
    IF action.name \in ToolFunctions
    THEN IF action.arguments.t = "dict" /\ DOMAIN action.arguments.v = Params(action.name)
         THEN [outcome |-> Return([tool_call_name |-> action.name,
                                   output |-> Handler(action.name, action.arguments.v)]),
               ran |-> <<action.name>>]
         ELSE [outcome |-> Raise("TypeError", <<"arguments">>), ran |-> <<>>]
    ELSE [outcome |-> Raise("ValueError", <<"Unknown function", action.name>>),
          ran |-> <<>>]

\* call_tool_function(action): what it returns or raises, and the handlers it ran.
\* The arguments are decoded first (a str by json.loads), then the name is looked
\* up; ** binding raises TypeError unless the arguments are a mapping whose keys
\* are the handler's parameters.
CallToolFunction(action) ==
    LET arguments == IF IsStr(action.arguments)
                     THEN JsonLoads(action.arguments)
                     ELSE Return(action.arguments)
    IN  IF arguments.kind = "raise" THEN [outcome |-> arguments, ran |-> <<>>]
        ELSE IF action.name \in ToolFunctions
        THEN IF arguments.val.t = "dict" /\ DOMAIN arguments.val.v = Params(action.name)
             THEN [outcome |-> Return([tool_call_name |-> action.name,
                                       output |-> Handler(action.name, arguments.val.v)]),
                   ran |-> <<action.name>>]
             ELSE [outcome |-> Raise("TypeError", <<"arguments">>), ran |-> <<>>]
        ELSE [outcome |-> Raise("ValueError", <<"Unknown function", action.name>>),
              ran |-> <<>>]

RECURSIVE RunToolCalls(_)
\* [call_tool_function(action) for action in actions]: the calls in order, the
\* first exception ending the comprehension
RunToolCalls(actions) ==
    IF actions = <<>> THEN [outcome |-> Return(<<>>), ran |-> <<>>]
    ELSE LET first == CallToolFunction(Head(actions))
         IN  IF first.outcome.kind = "raise" THEN first
             ELSE LET rest == RunToolCalls(Tail(actions))
                  IN  [outcome |-> IF rest.outcome.kind = "raise" THEN rest.outcome
                                   ELSE Return(<<first.outcome.val>> \o rest.outcome.val),
                       ran |-> first.ran \o rest.ran]

-----------------------------------------------------------------------------
(* mcp_server.py: the tools FafMcpServer registers and the handler it wraps *)
(* each sync handler in *)

\* _register_tools: the sync handlers in the order they are registered, each
\* under get_tool_function_info(func)["function"]["name"], its __name__
RegisteredTools ==
    <<"follow_up_then", "note_to_self", "save_url", "va_request", "journaling_topic">>

\* raise MCPToolError(message=str(e))
MCPToolError(e) == Raise("MCPToolError", <<e.val.exc>>)

\* tool_handler returning only the payload of the parsed record
tool_handler_payload_only(name, arguments) ==
    IF DOMAIN arguments # Params(name) THEN MCPToolError(Raise("TypeError", <<"arguments">>))
    ELSE IF JsonLoads(Handler(name, arguments)).kind = "raise"
    THEN MCPToolError(JsonLoads(Handler(name, arguments)))
    ELSE Return(Dict(JsonLoads(Handler(name, arguments)).val.v.payload))

\* tool_handler(call, request) of _create_tool_handler(func): func(**arguments),
\* json.loads of what it returns, the parsed mapping as the result; any
\* exception becomes MCPToolError
tool_handler(name, arguments) ==
    IF DOMAIN arguments # Params(name) THEN MCPToolError(Raise("TypeError", <<"arguments">>))
    ELSE IF JsonLoads(Handler(name, arguments)).kind = "raise"
    THEN MCPToolError(JsonLoads(Handler(name, arguments)))
    ELSE Return(JsonLoads(Handler(name, arguments)).val)

-----------------------------------------------------------------------------
(* main.py: the two LLM stages *)

\* json.dumps({"error": stage, "details": str(e)})
ErrorText(stage, e) == JsonDumps(Dict([error |-> stage, details |-> e]))

LlmFailed == [exc |-> "Exception", msg |-> <<"completion failed">>]

\* The metadata a complete response carries
MetaKeys == {"created", "model", "usage"}

Metadata ==
    [created |-> 123, model |-> "fake-model",
     prompt_tokens |-> 1, completion_tokens |-> 1, total_tokens |-> 2]

\* improve_user_input letting the failure of completion() propagate
improve_user_input_propagates(r) ==
    IF r.status \in {"raise", "no_choices"}
    THEN Raise("Exception", <<"completion failed">>)
    ELSE IF r.content.t = "none"
    THEN Raise("TypeError", <<"can only concatenate str">>)
    ELSE Return(r.content)

\* improve_user_input, given what completion() did: raised ("raise"), returned a
\* response without choices[0].message ("no_choices"), or returned one whose
\* message content is a str or is None
improve_user_input(r) ==
    IF r.status \in {"raise", "no_choices"}
    THEN Return(ErrorText("Failed to process input with LLM.", LlmFailed))
    ELSE IF r.content.t = "none"
    THEN Raise("TypeError", <<"can only concatenate str">>)
    ELSE Return(r.content)

\* convert_to_json with an empty list of tool calls answered by a record that
\* holds the metadata alone
ConvertToJsonEmptyRecord(r) ==
    IF r.status \in {"raise", "no_choices"}
    THEN [outcome |-> Return(ErrorText("Failed to process input with LLM.", LlmFailed)),
          ran |-> <<>>]
    ELSE LET calls == IF r.tool_calls.t = "none"
                      THEN [outcome |-> Return(<<>>), ran |-> <<>>]
                      ELSE RunToolCalls(r.tool_calls.v)
             output == IF calls.outcome.kind = "raise" THEN calls.outcome
                       ELSE IF calls.outcome.val = <<>>
                       THEN Return(Dict(<<>>))
                       ELSE JsonLoads(calls.outcome.val[1].output)
         IN  IF output.kind = "raise"
             THEN [outcome |-> Return(ErrorText("Failed to execute tool functions.", output.val)),
                   ran |-> calls.ran]
             ELSE IF r.meta # MetaKeys \/ output.val.t # "dict"
             THEN [outcome |-> Raise("AttributeError", <<"no attribute">>), ran |-> calls.ran]
             ELSE [outcome |-> Return(Dict(Metadata @@ output.val.v)), ran |-> calls.ran]

\* convert_to_json with the token counts left out of the merge
ConvertToJsonNoUsage(r) ==
    IF r.status \in {"raise", "no_choices"}
    THEN [outcome |-> Return(ErrorText("Failed to process input with LLM.", LlmFailed)),
          ran |-> <<>>]
    ELSE LET calls == IF r.tool_calls.t = "none"
                      THEN [outcome |-> Raise("TypeError", <<"NoneType is not iterable">>),
                            ran |-> <<>>]
                      ELSE RunToolCalls(r.tool_calls.v)
             output == IF calls.outcome.kind = "raise" THEN calls.outcome
                       ELSE IF calls.outcome.val = <<>>
                       THEN Raise("IndexError", <<"list index out of range">>)
                       ELSE JsonLoads(calls.outcome.val[1].output)
         IN  IF output.kind = "raise"
             THEN [outcome |-> Return(ErrorText("Failed to execute tool functions.", output.val)),
                   ran |-> calls.ran]
             ELSE IF r.meta # MetaKeys \/ output.val.t # "dict"
             THEN [outcome |-> Raise("AttributeError", <<"no attribute">>), ran |-> calls.ran]
             ELSE [outcome |-> Return(Dict([created |-> Metadata.created,
                                            model |-> Metadata.model] @@ output.val.v)),
                   ran |-> calls.ran]

\* convert_to_json, given what completion() did.  The first try covers the call
\* and choices[0].message, the second the tool calls; the metadata is read
\* outside both.
ConvertToJson(r) ==
    IF r.status \in {"raise", "no_choices"}
    THEN [outcome |-> Return(ErrorText("Failed to process input with LLM.", LlmFailed)),
          ran |-> <<>>]
    ELSE LET calls == IF r.tool_calls.t = "none"
                      THEN [outcome |-> Raise("TypeError", <<"NoneType is not iterable">>),
                            ran |-> <<>>]
                      ELSE RunToolCalls(r.tool_calls.v)
             output == IF calls.outcome.kind = "raise" THEN calls.outcome
                       ELSE IF calls.outcome.val = <<>>
                       THEN Raise("IndexError", <<"list index out of range">>)
                       ELSE JsonLoads(calls.outcome.val[1].output)
         IN  IF output.kind = "raise"
             THEN [outcome |-> Return(ErrorText("Failed to execute tool functions.", output.val)),
                   ran |-> calls.ran]
             ELSE IF r.meta # MetaKeys \/ output.val.t # "dict"
             THEN [outcome |-> Raise("AttributeError", <<"no attribute">>), ran |-> calls.ran]
             ELSE [outcome |-> Return(Dict(Metadata @@ output.val.v)), ran |-> calls.ran]

-----------------------------------------------------------------------------
(* main.py: write_to_file *)

\* how many seconds the clock of a run spans
MaxTime == 1

\* What the disk does to a write_to_file call
Disks == {"ok", "mkdir_fails", "open_fails"}

FileName(ts, d) == <<ts, IF "command" \in DOMAIN d THEN d.command ELSE "unknown">>

\* write_to_file creating the output directory before it decodes the data
write_to_file_mkdir_first(data, ts, disk, f) ==
    LET data_dict == JsonLoads(data)
        called == [f EXCEPT !.writes = @ + 1]
    IN  IF disk = "mkdir_fails"
        THEN [outcome |-> Raise("OSError", <<"makedirs">>), fs |-> called]
        ELSE IF data_dict.kind = "raise"
        THEN [outcome |-> Raise("ValueError", <<"Failed to decode 'data' from JSON">>),
              fs |-> [called EXCEPT !.dir = TRUE]]
        ELSE IF data_dict.val.t # "dict"
        THEN [outcome |-> Raise("AttributeError", <<"no attribute 'get'">>),
              fs |-> [called EXCEPT !.dir = TRUE]]
        ELSE IF disk = "open_fails"
        THEN [outcome |-> Raise("IOError", <<"Unable to write to the file",
                                             FileName(ts, data_dict.val.v)>>),
              fs |-> [called EXCEPT !.dir = TRUE]]
        ELSE [outcome |-> Return(Str(<<"Success", FileName(ts, data_dict.val.v)>>)),
              fs |-> [called EXCEPT
                        !.dir = TRUE,
                        !.files = {x \in @ : x.name # FileName(ts, data_dict.val.v)}
                                  \cup {[name |-> FileName(ts, data_dict.val.v),
                                         data |-> data_dict.val]}]]

\* write_to_file(data) at clock second ts on a disk behaving as disk: what it
\* returns or raises, and the output directory afterwards
write_to_file(data, ts, disk, f) ==
    LET data_dict == JsonLoads(data)
        called == [f EXCEPT !.writes = @ + 1]
    IN  IF data_dict.kind = "raise"
        THEN [outcome |-> Raise("ValueError", <<"Failed to decode 'data' from JSON">>),
              fs |-> called]
        ELSE IF disk = "mkdir_fails"
        THEN [outcome |-> Raise("OSError", <<"makedirs">>), fs |-> called]
        ELSE IF data_dict.val.t # "dict"
        THEN [outcome |-> Raise("AttributeError", <<"no attribute 'get'">>),
              fs |-> [called EXCEPT !.dir = TRUE]]
        ELSE IF disk = "open_fails"
        THEN [outcome |-> Raise("IOError", <<"Unable to write to the file",
                                             FileName(ts, data_dict.val.v)>>),
              fs |-> [called EXCEPT !.dir = TRUE]]
        ELSE [outcome |-> Return(Str(<<"Success", FileName(ts, data_dict.val.v)>>)),
              fs |-> [called EXCEPT
                        !.dir = TRUE,
                        !.files = {x \in @ : x.name # FileName(ts, data_dict.val.v)}
                                  \cup {[name |-> FileName(ts, data_dict.val.v),
                                         data |-> data_dict.val]}]]

-----------------------------------------------------------------------------
(* mcp_tools.py: the validators *)

Ok == Return(None)

ValueError(msg) == Raise("ValueError", msg)

\* the first exception a sequence of validator results holds, Ok when none
FirstRaise(results) ==
    IF \E i \in 1..Len(results) : results[i].kind = "raise"
    THEN results[CHOOSE i \in 1..Len(results) :
                    /\ results[i].kind = "raise"
                    /\ \A j \in 1..(i - 1) : results[j].kind # "raise"]
    ELSE Ok

validate_non_empty_string(value, field_name) ==
    IF value = <<>> \/ Len(Strip(value)) = 0
    THEN ValueError(<<field_name, "cannot be empty">>)
    ELSE Ok

\* urlparse(url).netloc for a url that starts with http:// or https://: what
\* follows the // up to the first of / ? #
Netloc(url) ==
    LET rest == IF StartsWith(url, <<"h","t","t","p",":","/","/">>) THEN Drop(url, 7)
                ELSE Drop(url, 8)
        stops == {i \in 1..Len(rest) : rest[i] \in {"/", "?", "#"}}
        end == IF stops = {} THEN Len(rest)
               ELSE (CHOOSE i \in stops : \A j \in stops : i <= j) - 1
    IN  SubSeq(rest, 1, end)

\* urlparse raises ValueError("Invalid IPv6 URL") for a netloc with one bracket
\* but not the other
UrlparseRaises(url) == HasChar(Netloc(url), "[") # HasChar(Netloc(url), "]")

\* validate_url(url).  The ValueError for an empty netloc is raised inside the
\* try and caught by its except Exception, which raises "Invalid URL format".
validate_url(url) ==
    IF url = <<>> \/ Len(Strip(url)) = 0 THEN ValueError(<<"URL cannot be empty">>)
    ELSE LET u == Strip(url)
         IN  IF ~(StartsWith(u, <<"h","t","t","p",":","/","/">>)
                  \/ StartsWith(u, <<"h","t","t","p","s",":","/","/">>))
             THEN ValueError(<<"URL must start with http:// or https://">>)
             ELSE IF HasChar(u, " ") THEN ValueError(<<"URL cannot contain spaces">>)
             ELSE IF ~HasChar(u, ".")
             THEN ValueError(<<"URL must contain a domain with a dot">>)
             ELSE IF UrlparseRaises(u) \/ Netloc(u) = <<>>
             THEN ValueError(<<"Invalid URL format">>)
             ELSE Ok

ForbiddenChars == <<" ", ".", ",", ";">>

InvalidPatterns ==
    << <<"i","n"," ","a"," ","w","e","e","k">>,
       <<"i","n"," ","t","w","o"," ","w","e","e","k","s">>,
       <<"i","n"," ","a"," ","m","o","n","t","h">> >>

\* validate_date_format matching the "this" prefix in lower case only
validate_date_format_case_sensitive(date) ==
    IF date = <<>> \/ Len(Strip(date)) = 0 THEN ValueError(<<"Date cannot be empty">>)
    ELSE LET d == Strip(date)
         IN  IF \E i \in 1..Len(ForbiddenChars) : HasChar(d, ForbiddenChars[i])
             THEN ValueError(<<"Date cannot contain characters", " ">>)
             ELSE IF StartsWith(d, <<"t","h","i","s">>)
             THEN ValueError(<<"Date cannot start with 'this'">>)
             ELSE IF HasChar(d, ":")
             THEN ValueError(<<"Time should not contain colons">>)
             ELSE Ok

\* validate_date_format(date)
validate_date_format(date) ==
    IF date = <<>> \/ Len(Strip(date)) = 0 THEN ValueError(<<"Date cannot be empty">>)
    ELSE LET d == Strip(date)
         IN  IF \E i \in 1..Len(ForbiddenChars) : HasChar(d, ForbiddenChars[i])
             THEN ValueError(<<"Date cannot contain characters",
                               ForbiddenChars[CHOOSE i \in 1..Len(ForbiddenChars) :
                                   /\ HasChar(d, ForbiddenChars[i])
                                   /\ \A j \in 1..(i - 1) : ~HasChar(d, ForbiddenChars[j])]>>)
             ELSE IF StartsWith(Lower(d), <<"t","h","i","s">>)
             THEN ValueError(<<"Date cannot start with 'this'">>)
             ELSE IF HasChar(d, ":")
             THEN ValueError(<<"Time should not contain colons">>)
             ELSE IF \E i \in 1..Len(InvalidPatterns) : Contains(Lower(d), InvalidPatterns[i])
             THEN ValueError(<<"Use '1week', '2weeks', '1month' instead">>)
             ELSE Ok

ValidPriorities == { <<"l","o","w">>, <<"n","o","r","m","a","l">>, <<"h","i","g","h">> }

validate_priority(priority) ==
    IF priority \notin ValidPriorities
    THEN ValueError(<<"Priority must be one of: low, normal, high">>)
    ELSE Ok

VaKeywords ==
    { <<"v","i","r","t","u","a","l"," ","a","s","s","i","s","t","a","n","t">>,
      <<"v"," ","a","s","s","i","s","t","a","n","t">>,
      <<"v","a">> }

validate_va_keywords(prompt) ==
    IF ~\E k \in VaKeywords : Contains(Lower(prompt), k)
    THEN ValueError(<<"VA requests must include 'virtual assistant', 'v assistant', or 'VA'">>)
    ELSE Ok

ValidUrgencies == ValidPriorities \cup { <<"u","r","g","e","n","t">> }

\* the longest title va_request accepts
TitleMax == 100

-----------------------------------------------------------------------------
(* mcp_tools.py: the five MCP handlers.  Each gives what the handler returns *)
(* or raises, the sync handlers it ran, and the output directory afterwards; *)
(* ts and disk are the clock second and the disk's behaviour met by          *)
(* write_to_file, whose exceptions the handler catches and logs.             *)

Rejected(e, f) == [outcome |-> e, ran |-> <<>>, fs |-> f]

\* if value and value != "normal"
Specified(value) ==
    value.t # "none" /\ value.v # <<>> /\ value.v # <<"n","o","r","m","a","l">>

\* the tail every MCP handler shares, with a failed write_to_file raising instead
\* of being logged
SavedOrRaise(name, result_dict, ts, disk, f) ==
    LET w == write_to_file(JsonDumps(Dict(result_dict)), ts, disk, f)
    IN  [outcome |-> IF w.outcome.kind = "raise" THEN w.outcome ELSE Return(Dict(result_dict)),
         ran |-> <<name>>, fs |-> w.fs]

\* the tail every MCP handler shares: try write_to_file(json text of the record),
\* log any exception, return the record
Saved(name, result_dict, ts, disk, f) ==
    [outcome |-> Return(Dict(result_dict)),
     ran |-> <<name>>,
     fs |-> write_to_file(JsonDumps(Dict(result_dict)), ts, disk, f).fs]

\* follow_up_then of mcp_tools.py with the date rewritten before it is validated
mcp_follow_up_then_normalize_first(a, ts, disk, f) ==
    LET v == FirstRaise(<<validate_non_empty_string(a.prompt, "Prompt"),
                          validate_non_empty_string(a.date, "Date"),
                          validate_non_empty_string(a.message, "Message"),
                          validate_date_format(NormalizeDate(a.date))>>)
    IN  IF v.kind = "raise" THEN Rejected(v, f)
        ELSE Saved("follow_up_then", JsonLoads(follow_up_then(a)).val.v, ts, disk, f)

\* follow_up_then of mcp_tools.py with the record written before the validators run
mcp_follow_up_then_write_first(a, ts, disk, f) ==
    LET v == FirstRaise(<<validate_non_empty_string(a.prompt, "Prompt"),
                          validate_non_empty_string(a.date, "Date"),
                          validate_non_empty_string(a.message, "Message"),
                          validate_date_format(a.date)>>)
        s == Saved("follow_up_then", JsonLoads(follow_up_then(a)).val.v, ts, disk, f)
    IN  IF v.kind = "raise" THEN [s EXCEPT !.outcome = v] ELSE s

mcp_follow_up_then(a, ts, disk, f) ==
    LET v == FirstRaise(<<validate_non_empty_string(a.prompt, "Prompt"),
                          validate_non_empty_string(a.date, "Date"),
                          validate_non_empty_string(a.message, "Message"),
                          validate_date_format(a.date)>>)
    IN  IF v.kind = "raise" THEN Rejected(v, f)
        ELSE Saved("follow_up_then", JsonLoads(follow_up_then(a)).val.v, ts, disk, f)

\* note_to_self of mcp_tools.py without the validate_priority call
mcp_note_to_self_any_priority(a, ts, disk, f) ==
    LET v == FirstRaise(<<validate_non_empty_string(a.prompt, "Prompt"),
                          validate_non_empty_string(a.message, "Message")>>)
        result_dict == JsonLoads(note_to_self(a)).val.v
    IN  IF v.kind = "raise" THEN Rejected(v, f)
        ELSE Saved("note_to_self",
                   IF Specified(a.priority)
                   THEN [result_dict EXCEPT
                           !.payload = [priority |-> a.priority.v] @@ result_dict.payload]
                   ELSE result_dict,
                   ts, disk, f)

mcp_note_to_self(a, ts, disk, f) ==
    LET v == FirstRaise(<<validate_non_empty_string(a.prompt, "Prompt"),
                          validate_non_empty_string(a.message, "Message"),
                          IF a.priority.t # "none" THEN validate_priority(a.priority.v) ELSE Ok>>)
        result_dict == JsonLoads(note_to_self(a)).val.v
    IN  IF v.kind = "raise" THEN Rejected(v, f)
        ELSE Saved("note_to_self",
                   IF Specified(a.priority)
                   THEN [result_dict EXCEPT
                           !.payload = [priority |-> a.priority.v] @@ result_dict.payload]
                   ELSE result_dict,
                   ts, disk, f)

mcp_save_url(a, ts, disk, f) ==
    LET v == FirstRaise(<<validate_non_empty_string(a.prompt, "Prompt"), validate_url(a.url)>>)
        result_json == save_url(a)
    IN  IF v.kind = "raise" THEN Rejected(v, f)
        ELSE IF result_json.t = "str"
                /\ StartsWith(result_json.v, <<"E","r","r","o","r",":">>)
        THEN [outcome |-> ValueError(<<"Error: The input is not a valid URL.">>),
              ran |-> <<"save_url">>, fs |-> f]
        ELSE Saved("save_url", JsonLoads(result_json).val.v, ts, disk, f)

mcp_journaling_topic(a, ts, disk, f) ==
    LET v == FirstRaise(<<validate_non_empty_string(a.prompt, "Prompt"),
                          validate_non_empty_string(a.topic, "Topic"),
                          IF a.category.t # "none"
                          THEN validate_non_empty_string(a.category.v, "Category") ELSE Ok>>)
        result_dict == JsonLoads(journaling_topic(a)).val.v
    IN  IF v.kind = "raise" THEN Rejected(v, f)
        ELSE Saved("journaling_topic",
                   IF a.category.t # "none" /\ a.category.v # <<>>
                   THEN [result_dict EXCEPT
                           !.payload = [category |-> a.category.v] @@ result_dict.payload]
                   ELSE result_dict,
                   ts, disk, f)

\* va_request of mcp_tools.py with the title length checked before the urgency
mcp_va_request_title_first(a, ts, disk, f) ==
    LET v == FirstRaise(<<validate_non_empty_string(a.prompt, "Prompt"),
                          validate_non_empty_string(a.title, "Title"),
                          validate_non_empty_string(a.request, "Request"),
                          validate_va_keywords(a.prompt),
                          IF Len(a.title) > TitleMax
                          THEN ValueError(<<"Title should be short (100 characters or less)">>)
                          ELSE Ok,
                          IF a.urgency.t # "none" /\ a.urgency.v \notin ValidUrgencies
                          THEN ValueError(<<"Urgency must be one of: low, normal, high, urgent">>)
                          ELSE Ok>>)
        result_dict == JsonLoads(va_request(a)).val.v
    IN  IF v.kind = "raise" THEN Rejected(v, f)
        ELSE Saved("va_request",
                   IF Specified(a.urgency)
                   THEN [result_dict EXCEPT
                           !.payload = [urgency |-> a.urgency.v] @@ result_dict.payload]
                   ELSE result_dict,
                   ts, disk, f)

mcp_va_request(a, ts, disk, f) ==
    LET v == FirstRaise(<<validate_non_empty_string(a.prompt, "Prompt"),
                          validate_non_empty_string(a.title, "Title"),
                          validate_non_empty_string(a.request, "Request"),
                          validate_va_keywords(a.prompt),
                          IF a.urgency.t # "none" /\ a.urgency.v \notin ValidUrgencies
                          THEN ValueError(<<"Urgency must be one of: low, normal, high, urgent">>)
                          ELSE Ok,
                          IF Len(a.title) > TitleMax
                          THEN ValueError(<<"Title should be short (100 characters or less)">>)
                          ELSE Ok>>)
        result_dict == JsonLoads(va_request(a)).val.v
    IN  IF v.kind = "raise" THEN Rejected(v, f)
        ELSE Saved("va_request",
                   IF Specified(a.urgency)
                   THEN [result_dict EXCEPT
                           !.payload = [urgency |-> a.urgency.v] @@ result_dict.payload]
                   ELSE result_dict,
                   ts, disk, f)

-----------------------------------------------------------------------------
(* Inputs *)

\* how many fragments a generated date is put together from
MaxFrags == 3

Fragments ==
    { <<"t", "h">>, <<"i", "s">>, <<"t", "h", "i", "s">>, <<" ">>, <<".">>, <<":">>,
      <<"i", "n">>, <<"2">>, <<"d", "a", "y">>, <<"s">> }

RECURSIVE Concats(_)
\* the strings put together from at most n fragments
Concats(n) ==
    IF n = 0 THEN {<<>>}
    ELSE LET shorter == Concats(n - 1)
         IN  shorter \cup {s \o f : s \in shorter, f \in Fragments}

\* a date every step of the rewrite changes
AllSteps == <<"t","h","i","s"," ","i","n",",","2",".","d","a","y",":","s">>

ExampleDates ==
    { <<"t","h","i","s","M","o","n","d","a","y">>,
      <<"1"," ","A","u","g","u","s","t">>,
      <<"i","n","2","w","e","e","k","s">>,
      <<"t","o","m","o","r","r","o","w","3",":","0","0","p","m">>,
      <<"t","o","m","o","r","r","o","w","3","p","m">>,
      <<"i","n","a","w","e","e","k">>,
      <<"t","h","t","h","i","s","i","s">>,
      <<"t","h"," ","i","s">>,
      <<"i","n","i","n","2","d","a","y","s">>,
      <<"i","n","1","2","m","o","n","t","h","s">>,
      <<"1",",","A","u","g",";">>,
      AllSteps }

Dates == ExampleDates \cup Concats(MaxFrags)

Prompts == { <<"A","s","k"," ","t","h","e"," ","V","A">>, <<"h","i">> }

Messages == { <<"C","a","l","l"," ","J","o","h","n">> }

Tomorrow3pm == <<"t","o","m","o","r","r","o","w","3","p","m">>

GoodUrl == <<"h","t","t","p","s",":","/","/","a",".","b">>

\* what the command line or the Lambda event carries as the request
Requests == { <<"h","i">>, <<"i","'","m">> }

\* the text the first LLM stage answers with
ImprovedText == <<"h","i"," ","#","n","o","t","e">>

\* well-formed arguments for each handler
GoodArgs(name) ==
    CASE name = "follow_up_then" ->
            [prompt |-> <<"h","i">>, date |-> Tomorrow3pm, message |-> <<"h","i">>]
      [] name = "note_to_self" -> [prompt |-> <<"h","i">>, message |-> <<"h","i">>]
      [] name = "save_url" -> [prompt |-> <<"h","i">>, url |-> GoodUrl]
      [] name = "va_request" ->
            [prompt |-> <<"h","i">>, title |-> <<"h","i">>, request |-> <<"h","i">>]
      [] name = "journaling_topic" -> [prompt |-> <<"h","i">>, topic |-> <<"h","i">>]

\* the tool calls an LLM response is put together from: every handler with a
\* well-formed mapping; JSON text, malformed text, a missing key and JSON null as
\* arguments; dates the rewrite changes; a url save_url refuses; an unknown name
\* with a mapping, with JSON text and with malformed text
ToolCalls ==
    {[name |-> n, arguments |-> Dict(GoodArgs(n))] : n \in ToolFunctions}
    \cup {[name |-> n, arguments |-> JsonDumps(Dict(GoodArgs("note_to_self")))] :
            n \in {"note_to_self", "not_a_tool"}}
    \cup {[name |-> n, arguments |-> Str(<<"{">>)] : n \in {"note_to_self", "not_a_tool"}}
    \cup {[name |-> "not_a_tool", arguments |-> Dict(<<>>)],
          [name |-> "note_to_self", arguments |-> Dict([prompt |-> <<"h","i">>])],
          [name |-> "note_to_self", arguments |-> JsonDumps(None)],
          [name |-> "save_url",
           arguments |-> Dict([prompt |-> <<"h","i">>, url |-> <<"a",".","b">>])]}
    \cup {[name |-> "follow_up_then",
           arguments |-> Dict([GoodArgs("follow_up_then") EXCEPT !.date = d])] :
            d \in {<<"t","h","i","s","M","o","n","d","a","y">>, <<"t","h","i","s">>}}

\* a str that holds a quote and a backslash: a"b\c
Quoted == <<"a", "\"", "b", "\\", "c">>

\* field mappings for each handler: the well-formed one, one with a prompt JSON
\* has to escape, and one of another handler
ArgMaps(name) ==
    {GoodArgs(name), [GoodArgs(name) EXCEPT !.prompt = Quoted],
     GoodArgs(IF name = "note_to_self" THEN "save_url" ELSE "note_to_self"), <<>>}

\* every such mapping as arguments in both shapes: the mapping, and its JSON
\* text; a text cut short; an unknown name with a well-formed text
ShapedCalls ==
    UNION {{[name |-> n, arguments |-> Dict(m)] : m \in ArgMaps(n)} : n \in ToolFunctions}
    \cup UNION {{[name |-> n, arguments |-> JsonObjectText(m)] : m \in ArgMaps(n)} :
                   n \in ToolFunctions}
    \cup {[name |-> "note_to_self",
           arguments |-> Str(<<"{","\"","p","r","o","m","p","t","\"",":","\"","h","i">>)],
          [name |-> "not_a_tool", arguments |-> JsonObjectText(GoodArgs("note_to_self"))]}

\* the tool calls an LLM response is put together from
ResponseCalls ==
    {c \in ToolCalls :
        \/ c.name \in {"note_to_self", "save_url"} /\ c.arguments = Dict(GoodArgs(c.name))
        \/ c.arguments.t = "json" /\ c.arguments.v.t = "dict" /\ c.name = "note_to_self"
        \/ c.arguments.t = "str"
        \/ c.name = "not_a_tool" /\ c.arguments = Dict(<<>>)
        \/ c.name = "save_url" /\ c.arguments.t = "dict"
        \/ c.name = "follow_up_then" /\ c.arguments.t = "dict"
           /\ c.arguments.v.date = <<"t","h","i","s","M","o","n","d","a","y">>}

\* how many tool calls an LLM response carries at most
MaxToolCalls == 2

RECURSIVE CallSeqs(_)
CallSeqs(n) ==
    IF n = 0 THEN {<<>>}
    ELSE LET shorter == CallSeqs(n - 1)
         IN  shorter \cup {Append(s, c) : s \in shorter, c \in ResponseCalls}

List(s) == [t |-> "list", v |-> s]

\* the inputs of the MCP handlers
McpPrompts == { <<>>, <<" ">>, <<"h","i">>, <<"A","s","k"," ","t","h","e"," ","V","A">> }

McpTexts == { <<>>, <<"h","i">> }

ThisMonday == <<"t","h","i","s","M","o","n","d","a","y">>

FollowUpArgs ==
    {[prompt |-> p, date |-> d, message |-> m] :
        p \in McpPrompts, d \in {<<>>, Tomorrow3pm, ThisMonday}, m \in McpTexts}
    \cup {[prompt |-> <<"h","i">>, date |-> d, message |-> <<"h","i">>] : d \in Dates}

Options ==
    {None} \cup {Str(x) : x \in ValidUrgencies \cup {<<>>, <<" ">>, <<"a","s","a","p">>}}

Urls ==
    { <<>>, GoodUrl,
      <<"h","t","t","p",":","/","/","a",".","b">>,
      <<"a",".","b">>,
      <<"h","t","t","p","s",":","/","/","a"," ",".","b">>,
      <<"h","t","t","p","s",":","/","/","a","b">>,
      <<"h","t","t","p",":","/","/","/","a",".","b">>,
      <<"h","t","t","p",":","/","/","[","a",".","b">>,
      <<" ","h","t","t","p","s",":","/","/","a",".","b">>,
      <<"h","t","t","p","x",".","y">> }

Titles ==
    { <<>>, <<"h","i">>, [i \in 1..TitleMax |-> "x"], [i \in 1..(TitleMax + 1) |-> "x"] }

\* prompts given to validate_va_keywords
VaPrompts ==
    { <<"P","l","e","a","s","e"," ","b","o","o","k"," ","v","i","a"," ","t","h","e"," ","v","a","l","u","e"," ","c","h","a","i","n">>,
      <<"A","s","k"," ","t","h","e"," ","V","A"," ","t","o"," ","b","o","o","k"," ","i","t">>,
      <<"v","i","r","t","u","a","l"," ","a","s","s","i","s","t","a","n","t"," ","p","l","e","a","s","e">>,
      <<"B","o","o","k"," ","a"," ","r","e","s","t","a","u","r","a","n","t">>,
      <<"v"," ","a","s","s","i","s","t","a","n","t">>,
      <<"V","A">>,
      <<"n","o","v","a">>,
      <<"a"," ","v","a",".">>,
      <<"h","i">>,
      <<>> }

\* urls given to validate_url
UrlExamples ==
    Urls \cup
    { <<"e","x","a","m","p","l","e",".","c","o","m">>,
      <<"h","t","t","p","s",":","/","/","e","x","a","m","p","l","e"," ",".","c","o","m">>,
      <<"h","t","t","p","s",":","/","/","l","o","c","a","l","h","o","s","t">>,
      <<"h","t","t","p","s",":","/","/","e","x","a","m","p","l","e",".","c","o","m">>,
      <<"h","t","t","p","s",":","/","/","?","a",".","b">>,
      <<"h","t","t","p",":","/","/"," ","a">>,
      <<"f","t","p",":","/","/","a","b">> }

\* dates given to validate_date_format
DateExamples ==
    Dates \cup
    { <<"T","H","I","S","m","o","n","d","a","y">>,
      <<" ","t","h","i","s","M","o","n","d","a","y">>,
      <<"t","o","m","o","r","r","o","w","3","p","m"," ">>,
      <<"a",";","b">>,
      <<"i","n"," ","a"," ","w","e","e","k">>,
      <<"\t">>,
      <<"a","\t","b">>,
      <<"x","t","h","i","s">>,
      <<"3",":","0","0">>,
      <<"T","h","i","s">>,
      <<"M","o","n","d","a","y">>,
      <<" ">> }

\* how many write_to_file calls follow one another
MaxWrites == 2

\* the texts given to write_to_file: two note_to_self records, a save_url
\* record, and a text that is not JSON
WriteTexts ==
    { JsonDumps(Dict(Record(<<"h","i">>, "note_to_self", [message |-> <<"h","i">>]))),
      JsonDumps(Dict(Record(<<"y","o">>, "note_to_self", [message |-> <<"y","o">>]))),
      JsonDumps(Dict(Record(<<"h","i">>, "save_url", [url |-> GoodUrl]))),
      Str(<<"n","o","t"," ","j","s","o","n">>),
      JsonDumps(ErrorText("Failed to execute tool functions.", LlmFailed)) }

\* what completion() does in improve_user_input
ImproveResponses ==
    { [status |-> "raise", content |-> None],
      [status |-> "no_choices", content |-> None],
      [status |-> "ok", content |-> Str(ImprovedText)],
      [status |-> "ok", content |-> None] }

\* what completion() does in convert_to_json: it raises, or returns a response
\* without choices, or one with tool_calls None or a list, complete or with one
\* of created, model, usage missing
Responses ==
    { [status |-> st, tool_calls |-> None, meta |-> {}] : st \in {"raise", "no_choices"} }
    \cup { [status |-> "ok", tool_calls |-> tc, meta |-> m] :
             tc \in {None} \cup {List(cs) : cs \in CallSeqs(MaxToolCalls)},
             m \in {MetaKeys} \cup {MetaKeys \ {k} : k \in MetaKeys} }

-----------------------------------------------------------------------------
(* The state machine *)

NoFs == [dir |-> FALSE, files |-> {}, writes |-> 0]

Init ==
    /\ pc = "idle"
    /\ entry = "none"
    /\ args = <<>>
    /\ llm = <<>>
    /\ ran = <<>>
    /\ out = Return(None)
    /\ prev = Return(None)
    /\ fs = NoFs

Exit(code) == [kind |-> "exit", val |-> code]

\* tools.follow_up_then called directly with (prompt, date, message)
SyncFollowUpThen ==
    /\ pc = "idle"
    /\ \E p \in Prompts, d \in Dates, m \in Messages :
        /\ args' = [prompt |-> p, date |-> d, message |-> m]
        /\ out' = Return(follow_up_then(args'))
    /\ entry' = "follow_up_then_sync"
    /\ ran' = <<"follow_up_then">>
    /\ pc' = "done"
    /\ UNCHANGED <<llm, prev, fs>>

\* tools.follow_up_then called again on the date it has just stored
SyncFollowUpThenAgain ==
    /\ pc = "done"
    /\ entry = "follow_up_then_sync"
    /\ prev' = out
    /\ out' = Return(follow_up_then([args EXCEPT !.date = out.val.v.v.payload.date]))
    /\ entry' = "follow_up_then_again"
    /\ ran' = Append(ran, "follow_up_then")
    /\ UNCHANGED <<pc, args, llm, fs>>

\* tools.save_url called directly with (prompt, url)
SyncSaveUrl ==
    /\ pc = "idle"
    /\ \E p \in Prompts, u \in Urls :
        /\ args' = [prompt |-> p, url |-> u]
        /\ out' = Return(save_url(args'))
    /\ entry' = "save_url_sync"
    /\ ran' = <<"save_url">>
    /\ pc' = "done"
    /\ UNCHANGED <<llm, prev, fs>>

\* call_tool_function(action) called directly
CallTool ==
    /\ pc = "idle"
    /\ \E action \in ToolCalls \cup ShapedCalls :
        /\ args' = [action |-> action]
        /\ out' = CallToolFunction(action).outcome
        /\ ran' = CallToolFunction(action).ran
    /\ entry' = "call_tool_function"
    /\ pc' = "done"
    /\ UNCHANGED <<llm, prev, fs>>

\* validate_va_keywords(prompt) called directly
ValidateVaKeywords ==
    /\ pc = "idle"
    /\ \E p \in VaPrompts :
        /\ args' = [prompt |-> p]
        /\ out' = validate_va_keywords(p)
    /\ entry' = "validate_va_keywords"
    /\ pc' = "done"
    /\ UNCHANGED <<llm, ran, prev, fs>>

\* validate_url(url) called directly
ValidateUrl ==
    /\ pc = "idle"
    /\ \E u \in UrlExamples :
        /\ args' = [url |-> u]
        /\ out' = validate_url(u)
    /\ entry' = "validate_url"
    /\ pc' = "done"
    /\ UNCHANGED <<llm, ran, prev, fs>>

\* validate_date_format(date) called directly
ValidateDateFormat ==
    /\ pc = "idle"
    /\ \E d \in DateExamples :
        /\ args' = [date |-> d]
        /\ out' = validate_date_format(d)
    /\ entry' = "validate_date_format"
    /\ pc' = "done"
    /\ UNCHANGED <<llm, ran, prev, fs>>

\* write_to_file(data) called directly, one call after another on the same
\* output directory; the clock never runs backwards.  args keeps the data, the
\* clock second, the directory the call met and the calls made so far.
WriteToFile ==
    /\ pc \in {"idle", "writing"}
    /\ fs.writes < MaxWrites
    /\ \E data \in WriteTexts, ts \in 0..MaxTime, disk \in Disks :
        LET w == write_to_file(data, ts, disk, fs)
            calls == IF pc = "idle" THEN <<>> ELSE args.calls
        IN  /\ pc = "writing" => ts >= args.ts
            /\ args' = [data |-> data, ts |-> ts, before |-> fs,
                        calls |-> Append(calls, [data |-> data, ts |-> ts,
                                                 ok |-> w.outcome.kind = "return"])]
            /\ out' = w.outcome
            /\ fs' = w.fs
    /\ prev' = out
    /\ entry' = "write_to_file"
    /\ pc' = "writing"
    /\ UNCHANGED <<llm, ran>>

\* mcp_follow_up_then(prompt, date, message) of mcp_tools.py
McpFollowUpThen ==
    /\ pc = "idle"
    /\ \E x \in FollowUpArgs, ts \in 0..MaxTime, disk \in Disks :
        LET a == [prompt |-> x.prompt, date |-> x.date, message |-> x.message]
            r == mcp_follow_up_then(a, ts, disk, fs)
        IN  /\ args' = a
            /\ out' = r.outcome
            /\ ran' = r.ran
            /\ fs' = r.fs
    /\ entry' = "mcp_follow_up_then"
    /\ pc' = "done"
    /\ UNCHANGED <<llm, prev>>

\* mcp_note_to_self(prompt, message, priority) of mcp_tools.py
McpNoteToSelf ==
    /\ pc = "idle"
    /\ \E p \in McpPrompts, m \in McpTexts, pr \in Options, ts \in 0..MaxTime, disk \in Disks :
        LET a == [prompt |-> p, message |-> m, priority |-> pr]
            r == mcp_note_to_self(a, ts, disk, fs)
        IN  /\ args' = a
            /\ out' = r.outcome
            /\ ran' = r.ran
            /\ fs' = r.fs
    /\ entry' = "mcp_note_to_self"
    /\ pc' = "done"
    /\ UNCHANGED <<llm, prev>>

\* mcp_save_url(prompt, url) of mcp_tools.py
McpSaveUrl ==
    /\ pc = "idle"
    /\ \E p \in McpPrompts, u \in Urls, ts \in 0..MaxTime, disk \in Disks :
        LET a == [prompt |-> p, url |-> u]
            r == mcp_save_url(a, ts, disk, fs)
        IN  /\ args' = a
            /\ out' = r.outcome
            /\ ran' = r.ran
            /\ fs' = r.fs
    /\ entry' = "mcp_save_url"
    /\ pc' = "done"
    /\ UNCHANGED <<llm, prev>>

\* mcp_journaling_topic(prompt, topic, category) of mcp_tools.py
McpJournalingTopic ==
    /\ pc = "idle"
    /\ \E p \in McpPrompts, t \in McpTexts, c \in Options, ts \in 0..MaxTime, disk \in Disks :
        LET a == [prompt |-> p, topic |-> t, category |-> c]
            r == mcp_journaling_topic(a, ts, disk, fs)
        IN  /\ args' = a
            /\ out' = r.outcome
            /\ ran' = r.ran
            /\ fs' = r.fs
    /\ entry' = "mcp_journaling_topic"
    /\ pc' = "done"
    /\ UNCHANGED <<llm, prev>>

\* mcp_va_request(prompt, title, request, urgency) of mcp_tools.py
McpVaRequest ==
    /\ pc = "idle"
    /\ \E p \in McpPrompts, t \in Titles, r0 \in McpTexts, u \in Options, ts \in 0..MaxTime, disk \in Disks :
        LET a == [prompt |-> p, title |-> t, request |-> r0, urgency |-> u]
            r == mcp_va_request(a, ts, disk, fs)
        IN  /\ args' = a
            /\ out' = r.outcome
            /\ ran' = r.ran
            /\ fs' = r.fs
    /\ entry' = "mcp_va_request"
    /\ pc' = "done"
    /\ UNCHANGED <<llm, prev>>

\* request.replace("'", "\\'").replace('"', '\\"')
Escape(request) ==
    Replace(Replace(request, <<"'">>, <<"\\", "'">>), <<"\"">>, <<"\\", "\"">>)

\* main(), up to the first LLM stage: no argument exits 0, an empty one exits 1
MainStart ==
    /\ pc = "idle"
    /\ entry' = "main"
    /\ \E argv \in {None} \cup {Str(r) : r \in Requests \cup {<<>>}} :
        IF argv = None
        THEN /\ args' = [argv |-> argv]
             /\ out' = Exit(0)
             /\ pc' = "done"
        ELSE IF argv.v = <<>>
        THEN /\ args' = [argv |-> argv]
             /\ out' = Exit(1)
             /\ pc' = "done"
        ELSE /\ args' = [argv |-> argv, request |-> Escape(argv.v)]
             /\ out' = out
             /\ pc' = "improve"
    /\ UNCHANGED <<llm, ran, prev, fs>>

\* lambda_handler(event, context), up to the first LLM stage: 400 without a
\* request, 403 without OPENAI_API_KEY
LambdaStart ==
    /\ pc = "idle"
    /\ entry' = "lambda_handler"
    /\ \E request \in {None, Str(<<>>), Str(<<"h","i">>)}, api_key \in BOOLEAN :
        /\ args' = [event |-> request, api_key |-> api_key]
        /\ IF request = None \/ request.v = <<>>
           THEN out' = Return([statusCode |-> 400, body |-> None]) /\ pc' = "done"
           ELSE IF ~api_key
           THEN out' = Return([statusCode |-> 403, body |-> None]) /\ pc' = "done"
           ELSE out' = out /\ pc' = "improve"
    /\ UNCHANGED <<llm, ran, prev, fs>>


\* improve_user_input(request, ...): one completion() call
Improve ==
    /\ pc = "improve"
    /\ \E r \in ImproveResponses :
        /\ args' = [improve |-> r] @@ args
        /\ llm' = Append(llm, [stage |-> "improve", ok |-> r.status = "ok"])
        /\ out' = improve_user_input(r)
        /\ pc' = IF out'.kind = "raise" THEN "raised" ELSE "convert"
    /\ prev' = out
    /\ UNCHANGED <<entry, ran, fs>>

\* convert_to_json(improved_request, ...): one completion() call, then the tool calls
Convert ==
    /\ pc = "convert"
    /\ \E r \in Responses :
        /\ args' = [response |-> r, improved_request |-> out.val] @@ args
        /\ llm' = Append(llm, [stage |-> "convert", ok |-> r.status = "ok"])
        /\ out' = ConvertToJson(r).outcome
        /\ ran' = ConvertToJson(r).ran
        /\ pc' = IF out'.kind = "raise" THEN "raised" ELSE "converted"
    /\ prev' = out
    /\ UNCHANGED <<entry, fs>>

\* the rest of main(): write_to_file(json.dumps(output)) when output is truthy;
\* any exception, raised by a stage or by the write, exits 1
MainFinish ==
    /\ entry = "main"
    /\ pc \in {"converted", "raised"}
    /\ prev' = out
    /\ pc' = "done"
    /\ IF pc = "raised"
       THEN out' = Exit(1) /\ fs' = fs
       ELSE \E ts \in 0..MaxTime, disk \in Disks :
              LET w == write_to_file(JsonDumps(out.val), ts, disk, fs)
              IN  /\ fs' = w.fs
                  /\ out' = IF w.outcome.kind = "raise" THEN Exit(1) ELSE Exit(0)
    /\ UNCHANGED <<entry, args, llm, ran>>

\* the rest of lambda_handler: 200 with json.dumps(output), 400 for a ValueError,
\* 500 for any other exception
LambdaFinish ==
    /\ entry = "lambda_handler"
    /\ pc \in {"converted", "raised"}
    /\ prev' = out
    /\ pc' = "done"
    /\ out' = IF pc = "raised"
              THEN Return([statusCode |-> IF IsValueError(out.val.exc) THEN 400 ELSE 500,
                           body |-> None])
              ELSE Return([statusCode |-> 200, body |-> JsonDumps(out.val)])
    /\ UNCHANGED <<entry, args, llm, ran, fs>>

\* a tool call the MCP server of mcp_server.py receives for a registered tool
ToolHandler ==
    /\ pc = "idle"
    /\ \E i \in 1..Len(RegisteredTools) :
       \E call \in {c \in ToolCalls \cup ShapedCalls :
                       c.name = RegisteredTools[i] /\ c.arguments.t = "dict"} :
        /\ args' = [call |-> call]
        /\ out' = tool_handler(call.name, call.arguments.v)
        /\ ran' = IF DOMAIN call.arguments.v = Params(call.name) THEN <<call.name>> ELSE <<>>
    /\ entry' = "tool_handler"
    /\ pc' = "done"
    /\ UNCHANGED <<llm, prev, fs>>

\* tools_list() called, as main and lambda_handler do for convert_to_json
ToolsList ==
    /\ pc = "idle"
    /\ args' = <<>>
    /\ out' = Return(tools_list)
    /\ entry' = "tools_list"
    /\ pc' = "done"
    /\ UNCHANGED <<llm, ran, prev, fs>>

Next ==
    \/ SyncFollowUpThen
    \/ SyncFollowUpThenAgain
    \/ SyncSaveUrl
    \/ CallTool
    \/ ValidateVaKeywords
    \/ ValidateUrl
    \/ ValidateDateFormat
    \/ WriteToFile
    \/ MainStart
    \/ LambdaStart
    \/ Improve
    \/ Convert
    \/ MainFinish
    \/ LambdaFinish
    \/ McpFollowUpThen
    \/ McpNoteToSelf
    \/ McpSaveUrl
    \/ McpJournalingTopic
    \/ McpVaRequest
    \/ ToolHandler
    \/ ToolsList

Spec == Init /\ [][Next]_vars

-----------------------------------------------------------------------------
(* Properties *)

Resolutions == {"main", "lambda_handler"}

McpEntries ==
    {"mcp_follow_up_then", "mcp_note_to_self", "mcp_save_url", "mcp_journaling_topic",
     "mcp_va_request"}

\* the run has made its convert_to_json call
Converted == entry \in Resolutions /\ "response" \in DOMAIN args

\* o is the error string convert_to_json returns for the given stage
IsErrorResult(o, stage) ==
    /\ o.kind = "return"
    /\ o.val.t = "json"
    /\ o.val.v.t = "dict"
    /\ DOMAIN o.val.v.v = {"error", "details"}
    /\ o.val.v.v.error = stage

\* o is a record: a dict with prompt, command and payload
IsRecord(o) ==
    /\ o.kind = "return"
    /\ o.val.t = "dict"
    /\ {"prompt", "command", "payload"} \subseteq DOMAIN o.val.v

\* what convert_to_json made of the response, at any later position of the run
ConvertOutcome == IF pc = "done" THEN prev ELSE out

ZeroToolCalls(r) == r.status = "ok" /\ (r.tool_calls.t = "none" \/ r.tool_calls.v = <<>>)

\* C1: when the LLM response carries zero tool calls (None or an empty list),
\* convert_to_json returns the "Failed to execute tool functions." error, never a
\* record and never an exception, runs no handler, and the run leaves no file.
C1_ZeroToolCallsIsError ==
    (Converted /\ ZeroToolCalls(args.response)) =>
        /\ pc # "raised"
        /\ IsErrorResult(ConvertOutcome, "Failed to execute tool functions.")
        /\ ran = <<>>
        /\ fs.files = {}

\* C1 witness: main() has finished a run whose response held an empty list of
\* tool calls; write_to_file was called with the error string and wrote nothing.
C1_Witness ==
    /\ entry = "main" /\ pc = "done" /\ "response" \in DOMAIN args
    /\ args.response.status = "ok"
    /\ args.response.tool_calls = List(<<>>)
    /\ IsErrorResult(prev, "Failed to execute tool functions.")
    /\ fs.writes = 1 /\ fs.files = {}

\* the response r cut down to its first tool call
FirstCallOnly(r) == [r EXCEPT !.tool_calls = List(<<r.tool_calls.v[1]>>)]

SeveralToolCalls(r) ==
    r.status = "ok" /\ r.tool_calls.t = "list" /\ Len(r.tool_calls.v) > 1

\* C2 (as stated): with more than one tool call in the response, convert_to_json
\* ends as it would for the first tool call alone, and runs no handler for a
\* later call.
C2_OnlyFirstCallUsed ==
    (Converted /\ pc \in {"converted", "raised"} /\ SeveralToolCalls(args.response)) =>
        /\ out = ConvertToJson(FirstCallOnly(args.response)).outcome
        /\ ran = ConvertToJson(FirstCallOnly(args.response)).ran

\* C3 (as stated): call_tool_function with a name outside the catalog always
\* raises ValueError "Unknown function: <name>", whatever the arguments, and runs
\* no handler.
C3_UnknownNameAlwaysUnknownFunction ==
    (entry = "call_tool_function" /\ args.action.name \notin ToolFunctions) =>
        /\ out.kind = "raise"
        /\ out.val.exc = "ValueError"
        /\ out.val.msg = <<"Unknown function", args.action.name>>
        /\ ran = <<>>

\* C3 (amended): call_tool_function with a name outside the catalog always
\* raises a ValueError and runs no handler: "Unknown function: <name>" when the
\* arguments are a mapping or text json.loads decodes, and json's decode error (a
\* ValueError) when they are text json.loads rejects, the arguments being
\* decoded before the name is looked up.
C3_UnknownNameRaisesValueError ==
    (entry = "call_tool_function" /\ args.action.name \notin ToolFunctions) =>
        /\ out.kind = "raise"
        /\ IsValueError(out.val.exc)
        /\ ran = <<>>
        /\ IF IsStr(args.action.arguments) /\ JsonLoads(args.action.arguments).kind = "raise"
           THEN out.val.exc = "JSONDecodeError"
           ELSE /\ out.val.exc = "ValueError"
                /\ out.val.msg = <<"Unknown function", args.action.name>>

\* C3 witness: an unknown name with malformed JSON text ended in the decode error.
C3_Witness ==
    /\ entry = "call_tool_function"
    /\ args.action.name = "not_a_tool"
    /\ args.action.arguments = Str(<<"{">>)
    /\ out.kind = "raise" /\ out.val.exc = "JSONDecodeError"
    /\ ran = <<>>

\* the LLM collaborator failed: it raised, or its response misses choices, tool
\* calls or part of the metadata
LlmFailure(r) ==
    r.status # "ok" \/ r.tool_calls.t = "none" \/ r.meta # MetaKeys

\* C4 (as stated): whenever the LLM collaborator fails during convert_to_json,
\* convert_to_json returns an error result and no exception leaves it.
C4_LlmFailureIsErrorResult ==
    (Converted /\ LlmFailure(args.response)) =>
        /\ pc # "raised"
        /\ \/ IsErrorResult(ConvertOutcome, "Failed to process input with LLM.")
           \/ IsErrorResult(ConvertOutcome, "Failed to execute tool functions.")

C6_NoRecordOnError ==
    /\ (entry \in McpEntries /\ out.kind = "raise") =>
          /\ fs = NoFs
          /\ ran # <<>> => (entry = "mcp_save_url"
                            /\ out.val.msg = <<"Error: The input is not a valid URL.">>)
    /\ (entry = "main" /\ pc = "done" /\ ~IsRecord(prev)) => fs.files = {}

\* C6 witness: main() has finished a run in which the LLM chose an unknown tool;
\* write_to_file was called once and wrote nothing.
C6_Witness ==
    /\ entry = "main" /\ pc = "done" /\ "response" \in DOMAIN args
    /\ args.response.status = "ok"
    /\ args.response.tool_calls = List(<<[name |-> "not_a_tool", arguments |-> Dict(<<>>)]>>)
    /\ out = Exit(1)
    /\ fs.writes = 1 /\ fs.files = {}

\* the command of the record an MCP handler builds
CommandOf(e) ==
    CASE e = "mcp_follow_up_then" -> "follow_up_then"
      [] e = "mcp_note_to_self" -> "note_to_self"
      [] e = "mcp_save_url" -> "save_url"
      [] e = "mcp_journaling_topic" -> "journaling_topic"
      [] e = "mcp_va_request" -> "va_request"

\* C7: an MCP handler whose validators passed and whose write_to_file call
\* failed (it was called and left no file) returns the record it built and
\* raises nothing, and write_to_file was called once.
C7_WriteFailureStillReturns ==
    (entry \in McpEntries /\ fs.writes > 0 /\ fs.files = {}) =>
        /\ IsRecord(out)
        /\ out.val.v.prompt = args.prompt
        /\ out.val.v.command = CommandOf(entry)
        /\ Params(CommandOf(entry)) \ {"prompt"} \subseteq DOMAIN out.val.v.payload
        /\ fs.writes = 1

\* C7 witness: note_to_self of mcp_tools.py returned its record although the
\* write failed.
C7_Witness ==
    /\ entry = "mcp_note_to_self"
    /\ fs.writes = 1 /\ fs.files = {}
    /\ IsRecord(out) /\ out.val.v.payload.message = <<"h","i">>

BlankInput(a) ==
    \E k \in {"prompt", "date", "message"} : a[k] = <<>> \/ Len(Strip(a[k])) = 0

\* C8 (as stated): follow_up_then of mcp_tools.py validates the date the Date
\* Normalizer produced: a date is accepted exactly when its normalized form
\* passes validate_date_format, and is then stored in normalized form.
C8_NormalizeThenValidate ==
    (entry = "mcp_follow_up_then" /\ ~BlankInput(args)) =>
        /\ out.kind = "return" <=> validate_date_format(NormalizeDate(args.date)) = Ok
        /\ out.kind = "return" => out.val.v.payload.date = NormalizeDate(args.date)

\* C8 (amended): follow_up_then of mcp_tools.py validates the date as supplied,
\* before the Date Normalizer runs: a date validate_date_format rejects, also
\* one the Normalizer would have fixed ('thisMonday', '1 August',
\* 'tomorrow3:00pm'), raises the validator's error, and nothing is built or
\* stored; a date that passes is then normalized by the sync handler and stored
\* in normalized form.
C8_ValidateThenNormalize ==
    (entry = "mcp_follow_up_then" /\ ~BlankInput(args)) =>
        /\ out.kind = "return" <=> validate_date_format(args.date) = Ok
        /\ out.kind = "raise" =>
              out = validate_date_format(args.date) /\ ran = <<>> /\ fs = NoFs
        /\ out.kind = "return" => out.val.v.payload.date = NormalizeDate(args.date)

\* C8 witness: 'thisMonday', which the Normalizer rewrites to 'Monday', was
\* rejected by follow_up_then of mcp_tools.py.
C8_Witness ==
    /\ entry = "mcp_follow_up_then"
    /\ args = [prompt |-> <<"h","i">>, date |-> ThisMonday, message |-> <<"h","i">>]
    /\ out = ValueError(<<"Date cannot start with 'this'">>)
    /\ validate_date_format(NormalizeDate(args.date)) = Ok

StoredDate(o) == o.val.v.v.payload.date

\* C9 (as stated): the date rewrite of follow_up_then is idempotent: applied to
\* the date it has stored, it stores the same date.
C9_NormalizeIdempotent ==
    entry = "follow_up_then_again" => StoredDate(out) = StoredDate(prev)

RECURSIVE Pick(_, _, _)
\* the characters of s at the positions in keep, from position i on
Pick(s, keep, i) ==
    IF i > Len(s) THEN <<>>
    ELSE (IF i \in keep THEN <<s[i]>> ELSE <<>>) \o Pick(s, keep, i + 1)

\* the positions of s that lie in an occurrence of w
Inside(s, w) ==
    {i \in 1..Len(s) :
        \E j \in 1..i : j + Len(w) - 1 >= i /\ j + Len(w) - 1 <= Len(s)
                        /\ SubSeq(s, j, j + Len(w) - 1) = w}

Without(s, c) == SelectSeq(s, LAMBDA x : x # c)

\* "in" at position j of s is followed by one or more digits and a unit
InBeforeDigitsUnit(s, j) ==
    /\ j + 1 <= Len(s) /\ s[j] = "i" /\ s[j + 1] = "n"
    /\ \E k \in 1..Len(s) :
        /\ j + 1 + k <= Len(s)
        /\ \A m \in 1..k : s[j + 1 + m] \in Digits
        /\ \E u \in {<<"d","a","y">>, <<"w","e","e","k">>, <<"m","o","n","t","h">>} :
              /\ j + 1 + k + Len(u) <= Len(s)
              /\ SubSeq(s, j + 2 + k, j + 1 + k + Len(u)) = u

\* The six steps of the Date Normalizer, each stated by what it removes: the
\* characters of every "this", every space, '.', ',' and ':', and the "in" of
\* every in<digits><day|week|month>.
SixSteps(date) ==
    LET s1 == Pick(date, (1..Len(date)) \ Inside(date, <<"t","h","i","s">>), 1)
        s5 == Without(Without(Without(Without(s1, " "), "."), ","), ":")
    IN  Pick(s5, {i \in 1..Len(s5) : ~InBeforeDigitsUnit(s5, i)
                                     /\ ~(i > 1 /\ InBeforeDigitsUnit(s5, i - 1))}, 1)

\* the examples of the Date Normalizer: input and stored date
NormalizerExamples ==
    { <<ThisMonday, <<"M","o","n","d","a","y">> >>,
      << <<"1"," ","A","u","g","u","s","t">>, <<"1","A","u","g","u","s","t">> >>,
      << <<"i","n","2","w","e","e","k","s">>, <<"2","w","e","e","k","s">> >>,
      << <<"t","o","m","o","r","r","o","w","3",":","0","0","p","m">>,
         <<"t","o","m","o","r","r","o","w","3","0","0","p","m">> >>,
      << <<"i","n","a","w","e","e","k">>, <<"i","n","a","w","e","e","k">> >> }

\* C10: the date follow_up_then stores is the six-step transform of the date it
\* was given: every "this" removed, then every space, '.', ',' and ':', then
\* each in<digits><unit> rewritten to <digits><unit>; 'thisMonday' gives
\* 'Monday', '1 August' '1August', 'in2weeks' '2weeks', 'tomorrow3:00pm'
\* 'tomorrow300pm', and 'inaweek' stays.  The same holds of the date stored
\* through follow_up_then of mcp_tools.py.
C10_StoredDateIsSixSteps ==
    /\ entry = "follow_up_then_sync" =>
          /\ StoredDate(out) = SixSteps(args.date)
          /\ \A e \in NormalizerExamples : args.date = e[1] => StoredDate(out) = e[2]
    /\ (entry = "mcp_follow_up_then" /\ out.kind = "return") =>
          out.val.v.payload.date = SixSteps(args.date)

\* C10 witness: a date every step changes was stored as '2days'.
C10_Witness ==
    /\ entry = "follow_up_then_sync"
    /\ args.date = AllSteps
    /\ StoredDate(out) = <<"2","d","a","y","s">>

\* the payload of the record a returned outcome carries, for the entry points
\* that return a record: call_tool_function (in the JSON text of 'output'),
\* convert_to_json and the MCP handlers (as a dict)
HasRecord ==
    /\ out.kind = "return"
    /\ \/ entry = "call_tool_function" /\ out.val.output.t = "json"
       \/ entry \in Resolutions /\ pc = "converted" /\ IsRecord(out)
       \/ entry \in McpEntries

RecordOf ==
    IF entry = "call_tool_function" THEN out.val.output.v.v ELSE out.val.v

\* the optional field each MCP handler may add to the payload
OptionalField(e) ==
    CASE e = "mcp_note_to_self" -> {"priority"}
      [] e = "mcp_journaling_topic" -> {"category"}
      [] e = "mcp_va_request" -> {"urgency"}
      [] OTHER -> {}

InvalidUrlDispatched ==
    \/ entry \in {"save_url_sync", "mcp_save_url"} /\ validate_url(args.url) # Ok
    \/ /\ entry = "call_tool_function"
       /\ args.action.name = "save_url"
       /\ args.action.arguments.t = "dict"
       /\ DOMAIN args.action.arguments.v = Params("save_url")
       /\ validate_url(args.action.arguments.v.url) # Ok

\* C12 (as stated): save_url given a url that fails URL validation ends in a
\* raised error on every path (sync handler, call_tool_function, MCP handler),
\* never in a returned value, and nothing is stored.
C12_InvalidUrlAlwaysRaises ==
    InvalidUrlDispatched => out.kind = "raise" /\ fs = NoFs

\* the characters a word is made of
WordChars ==
    {"a","b","c","d","e","f","g","h","i","j","k","l","m","n","o","p","q","r","s","t","u",
     "v","w","x","y","z"} \cup Digits

\* 'va' stands in s as a word of its own
StandaloneVa(s) ==
    \E i \in 1..(Len(s) - 1) :
        /\ s[i] = "v" /\ s[i + 1] = "a"
        /\ i = 1 \/ s[i - 1] \notin WordChars
        /\ i + 1 = Len(s) \/ s[i + 2] \notin WordChars

\* C13 (as stated): validate_va_keywords accepts a prompt exactly when its
\* lowercased text contains 'virtual assistant' or contains 'va' as a word of
\* its own; 'va' inside a longer word does not count.
C13_VaIsWholeWord ==
    entry = "validate_va_keywords" =>
        (out = Ok <=>
            \/ Contains(Lower(args.prompt),
                        <<"v","i","r","t","u","a","l"," ","a","s","s","i","s","t","a","n","t">>)
            \/ StandaloneVa(Lower(args.prompt)))

\* the url passes check (1), (2), (3) of validate_url
SchemeOk(u) ==
    \/ Len(u) >= 7 /\ SubSeq(u, 1, 7) = <<"h","t","t","p",":","/","/">>
    \/ Len(u) >= 8 /\ SubSeq(u, 1, 8) = <<"h","t","t","p","s",":","/","/">>

NoSpace(u) == \A i \in 1..Len(u) : u[i] # " "

HasDot(u) == \E i \in 1..Len(u) : u[i] = "."

\* a url validate_url does not trim: not empty, no whitespace at either end
Untrimmed(u) == u # <<>> /\ u[1] \notin Whitespace /\ u[Len(u)] \notin Whitespace

\* C14 (as stated): validate_url reports the reason of the first check that
\* fails, in the order scheme, space, dot, host: the valid-domain reason for a
\* url that passes the first three and has no host, and no error for a url that
\* passes all four.
C14_FirstFailingCheckReported ==
    (entry = "validate_url" /\ Untrimmed(args.url)) =>
        out = IF ~SchemeOk(args.url) THEN ValueError(<<"URL must start with http:// or https://">>)
              ELSE IF ~NoSpace(args.url) THEN ValueError(<<"URL cannot contain spaces">>)
              ELSE IF ~HasDot(args.url) THEN ValueError(<<"URL must contain a domain with a dot">>)
              ELSE IF UrlparseRaises(args.url) \/ Netloc(args.url) = <<>>
              THEN ValueError(<<"URL must have a valid domain">>)
              ELSE Ok

\* s without the whitespace at its ends
Trimmed(s) ==
    LET inked == {i \in 1..Len(s) : s[i] \notin Whitespace}
    IN  IF inked = {} THEN <<>>
        ELSE SubSeq(s, CHOOSE i \in inked : \A j \in inked : i <= j,
                       CHOOSE i \in inked : \A j \in inked : i >= j)

\* d starts with 'this' in any letter case
ThisPrefix(d) ==
    /\ Len(d) >= 4
    /\ d[1] \in {"t", "T"} /\ d[2] \in {"h", "H"} /\ d[3] \in {"i", "I"} /\ d[4] \in {"s", "S"}

\* C15: validate_date_format rejects a date exactly when, trimmed of the
\* whitespace around it, it is empty, or contains a space, '.', ',' or ';', or
\* starts with 'this' in any letter case, or contains ':'; every other date is
\* accepted (the spelled-out "in a week" forms it also looks for contain a space).
C15_DateRejectedExactlyWhen ==
    entry = "validate_date_format" =>
        (out.kind = "raise" <=>
            LET d == Trimmed(args.date)
            IN  \/ d = <<>>
                \/ \E i \in 1..Len(d) : d[i] \in {" ", ".", ",", ";", ":"}
                \/ ThisPrefix(d))

\* C15 witness: 'THISmonday' was rejected for its prefix, and it holds none of
\* the forbidden characters.
C15_Witness ==
    /\ entry = "validate_date_format"
    /\ args.date = <<"T","H","I","S","m","o","n","d","a","y">>
    /\ out = ValueError(<<"Date cannot start with 'this'">>)

\* the successful write_to_file calls made so far
Written == {i \in 1..Len(args.calls) : args.calls[i].ok}

\* the file a successful call wrote
FileOf(call) ==
    [name |-> FileName(call.ts, JsonLoads(call.data).val.v), data |-> JsonLoads(call.data).val]

\* C16 (as stated): after any sequence of successful write_to_file calls, two
\* with the same command in the same clock second included, every call has its
\* own file and the file of an earlier call is as that call wrote it.
C16_OneFilePerCall ==
    entry = "write_to_file" =>
        /\ \A i \in Written : FileOf(args.calls[i]) \in fs.files
        /\ \A i, j \in Written : i # j => FileOf(args.calls[i]).name # FileOf(args.calls[j]).name
        /\ Cardinality(fs.files) = Cardinality(Written)

\* C17: write_to_file given text json.loads rejects raises ValueError before it
\* touches the filesystem: the output directory is as it was (not created if it
\* did not exist) and no file is written or changed.
C17_BadJsonNoEffect ==
    (entry = "write_to_file" /\ JsonLoads(args.data).kind = "raise") =>
        /\ out.kind = "raise"
        /\ out.val.exc = "ValueError"
        /\ fs.dir = args.before.dir
        /\ fs.files = args.before.files

\* C17 witness: the first call on a fresh output directory was given text that
\* is not JSON; it raised ValueError and there is still no directory.
C17_Witness ==
    /\ entry = "write_to_file"
    /\ args.data = Str(<<"n","o","t"," ","j","s","o","n">>)
    /\ args.before = NoFs
    /\ out.kind = "raise" /\ out.val.exc = "ValueError"
    /\ ~fs.dir /\ fs.files = {} /\ fs.writes = 1

\* the mapping call_tool_function binds to the handler's parameters
Decoded(arguments) == IF IsStr(arguments) THEN JsonLoads(arguments).val ELSE arguments

RecordKeys == {"prompt", "command", "payload"}

MetadataKeys == {"created", "model", "prompt_tokens", "completion_tokens", "total_tokens"}

\* the record call_tool_function makes of the first tool call of the response
FirstRecord == CallToolFunction(args.response.tool_calls.v[1]).outcome.val.output.v.v

\* C19: on success convert_to_json returns the record of the first tool call
\* with exactly the five metadata keys created, model, prompt_tokens,
\* completion_tokens and total_tokens added from the response; prompt, command
\* and payload are as the handler built them.
C19_MetadataMerged ==
    (Converted /\ IsRecord(ConvertOutcome)) =>
        /\ DOMAIN ConvertOutcome.val.v = RecordKeys \cup MetadataKeys
        /\ \A k \in RecordKeys : ConvertOutcome.val.v[k] = FirstRecord[k]
        /\ \A k \in MetadataKeys : ConvertOutcome.val.v[k] = Metadata[k]

\* C19 witness: convert_to_json returned the note_to_self record of the first
\* tool call with the five metadata keys beside its three.
C19_Witness ==
    /\ Converted /\ pc = "converted"
    /\ IsRecord(out)
    /\ out.val.v.command = "note_to_self"
    /\ out.val.v.payload = [message |-> <<"h","i">>]
    /\ Cardinality(DOMAIN out.val.v) = 8
    /\ out.val.v.total_tokens = Metadata.total_tokens

\* C20: call_tool_function treats both shapes of the arguments alike: for every
\* known name and every field mapping m, called with m it ends (result or
\* exception, and handlers run) as it does called with the JSON text of m, and
\* called with a JSON text as it does called with the mapping the text decodes
\* to.
C20_MappingAndJsonTextAlike ==
    (entry = "call_tool_function" /\ args.action.name \in ToolFunctions) =>
        /\ (args.action.arguments.t = "dict"
            /\ DOMAIN args.action.arguments.v \subseteq FieldNames) =>
              LET text == [args.action EXCEPT !.arguments = JsonObjectText(@.v)]
              IN  /\ out = CallToolFunction(text).outcome
                  /\ ran = CallToolFunction(text).ran
        /\ (args.action.arguments.t = "str" /\ ParseObject(args.action.arguments.v).ok) =>
              LET mapping == [args.action EXCEPT !.arguments = Dict(ParseObject(@.v).val)]
              IN  /\ out = CallToolFunction(mapping).outcome
                  /\ ran = CallToolFunction(mapping).ran

\* C20 witness: call_tool_function was given the JSON text of a note_to_self
\* mapping whose prompt holds a quote and a backslash, and returned the record
\* with that prompt.
C20_Witness ==
    /\ entry = "call_tool_function"
    /\ args.action.name = "note_to_self"
    /\ args.action.arguments = JsonObjectText([prompt |-> Quoted, message |-> <<"h","i">>])
    /\ out.kind = "return"
    /\ out.val.output.v.v.prompt = Quoted
    /\ ran = <<"note_to_self">>

\* x is empty or whitespace only
Blank(x) == \A i \in 1..Len(x) : x[i] \in Whitespace

\* the error a handler reports when the first failing check of checks, a sequence
\* of <<failed, error>> pairs, is the one at i; Ok when none fails
FirstFailure(checks) ==
    IF \A i \in 1..Len(checks) : ~checks[i][1] THEN Ok
    ELSE checks[CHOOSE i \in 1..Len(checks) :
                    checks[i][1] /\ \A j \in 1..(i - 1) : ~checks[j][1]][2]

\* C21: the validators of an MCP handler run in a fixed order and the first one
\* that fails gives the error: follow_up_then checks prompt, date and message
\* non-empty, then the date format; va_request checks prompt, title and request
\* non-empty, then the VA keyword, then the urgency, then the title length, which
\* 100 characters pass and 101 fail.  The handler returns a record exactly when
\* no check fails.
C21_FirstFailingValidatorWins ==
    /\ entry = "mcp_follow_up_then" =>
          LET e == FirstFailure(<<
                     <<Blank(args.prompt), ValueError(<<"Prompt", "cannot be empty">>)>>,
                     <<Blank(args.date), ValueError(<<"Date", "cannot be empty">>)>>,
                     <<Blank(args.message), ValueError(<<"Message", "cannot be empty">>)>>,
                     <<validate_date_format(args.date) # Ok, validate_date_format(args.date)>> >>)
          IN  IF e = Ok THEN out.kind = "return" ELSE out = e
    /\ entry = "mcp_va_request" =>
          LET e == FirstFailure(<<
                     <<Blank(args.prompt), ValueError(<<"Prompt", "cannot be empty">>)>>,
                     <<Blank(args.title), ValueError(<<"Title", "cannot be empty">>)>>,
                     <<Blank(args.request), ValueError(<<"Request", "cannot be empty">>)>>,
                     <<validate_va_keywords(args.prompt) # Ok, validate_va_keywords(args.prompt)>>,
                     <<args.urgency.t # "none" /\ args.urgency.v \notin ValidUrgencies,
                       ValueError(<<"Urgency must be one of: low, normal, high, urgent">>)>>,
                     <<Len(args.title) >= 101,
                       ValueError(<<"Title should be short (100 characters or less)">>)>> >>)
          IN  IF e = Ok THEN out.kind = "return" ELSE out = e

\* C21 witness: va_request was given an urgency outside the enum and a title of
\* 101 characters, and reported the urgency; the prompt names the VA.
C21_Witness ==
    /\ entry = "mcp_va_request"
    /\ validate_va_keywords(args.prompt) = Ok
    /\ Len(args.title) = 101
    /\ args.urgency = Str(<<"a","s","a","p">>)
    /\ ~Blank(args.request) /\ args.request # <<>>
    /\ out = ValueError(<<"Urgency must be one of: low, normal, high, urgent">>)

\* the values the validator of handler e's optional field lets through
Accepts(e, x) ==
    CASE e = "mcp_note_to_self" ->
            x \in {<<"l","o","w">>, <<"n","o","r","m","a","l">>, <<"h","i","g","h">>}
      [] e = "mcp_va_request" ->
            x \in {<<"l","o","w">>, <<"n","o","r","m","a","l">>, <<"h","i","g","h">>,
                   <<"u","r","g","e","n","t">>}
      [] e = "mcp_journaling_topic" -> ~Blank(x)

\* C22: the optional field of an MCP handler (priority of note_to_self, urgency
\* of va_request, category of journaling_topic) is in the payload of the
\* returned record only if the caller supplied it and it passed its validator,
\* and then with the supplied value; a supplied value the validator does not
\* accept makes the handler raise ValueError with no sync handler run and the
\* output directory untouched.
C22_OptionalFieldOnlyWhenValid ==
    [][(pc = "idle" /\ entry' \in {"mcp_note_to_self", "mcp_va_request", "mcp_journaling_topic"}) =>
          \A k \in OptionalField(entry') :
              /\ (out'.kind = "return" /\ k \in DOMAIN out'.val.v.payload) =>
                    /\ args'[k].t # "none"
                    /\ Accepts(entry', args'[k].v)
                    /\ out'.val.v.payload[k] = args'[k].v
              /\ (args'[k].t # "none" /\ ~Accepts(entry', args'[k].v)) =>
                    /\ out'.kind = "raise" /\ IsValueError(out'.val.exc)
                    /\ ran' = <<>>
                    /\ fs' = fs]_vars

\* C22 witness: va_request was called with urgency 'urgent' and returned a
\* record whose payload carries it.
C22_Witness ==
    /\ entry = "mcp_va_request"
    /\ args.urgency = Str(<<"u","r","g","e","n","t">>)
    /\ out.kind = "return"
    /\ "urgency" \in DOMAIN out.val.v.payload
    /\ out.val.v.payload.urgency = <<"u","r","g","e","n","t">>

\* the names the tool-calling surfaces expose
Range(seq) == {seq[i] : i \in 1..Len(seq)}

\* the result of a successful invocation is the mapping m
Result(m) == out.kind = "return" /\ out.val.t = "dict" /\ out.val.v = m

\* the intent and the arguments of the invocation the state holds
Invoked == IF entry = "tool_handler" THEN args.call.name ELSE CommandOf(entry)

Supplied == IF entry = "tool_handler" THEN args.call.arguments.v ELSE args

ImproveFailed ==
    /\ entry \in Resolutions
    /\ "improve" \in DOMAIN args
    /\ args.improve.status \in {"raise", "no_choices"}

\* C24 (as stated): when improve_user_input fails, the run of main or
\* lambda_handler ends in an error: convert_to_json is not called with the error
\* text as the request, no record is produced or persisted, and the run ends
\* with exit status 1 or a status code other than 200.
C24_ImproveFailureEndsRun ==
    ImproveFailed =>
        /\ "improved_request" \notin DOMAIN args
        /\ fs.files = {}
        /\ pc = "done" =>
              \/ out = Exit(1)
              \/ out.kind = "return" /\ out.val.statusCode # 200

\* C25 (as stated): in the MCP save_url, a url validate_url accepts is accepted
\* by the sync save_url called with the same argument, so the handler never
\* raises the sync handler's 'Error:' string.
C25_SentinelUnreachable ==
    (entry = "mcp_save_url" /\ ~Blank(args.prompt) /\ validate_url(args.url) = Ok) =>
        /\ save_url(args) # SaveUrlError
        /\ out # ValueError(<<"Error: The input is not a valid URL.">>)

\* C26 (as stated): on every entry path (call_tool_function, convert_to_json,
\* the MCP handler) the payload.date of a follow_up_then record that was
\* produced is a non-empty string.
C26_StoredDateNonEmpty ==
    (HasRecord /\ RecordOf.command = "follow_up_then") => Len(RecordOf.payload.date) > 0

\* the event of the lambda_handler run carries no request
NoRequest == args.event.t = "none" \/ Len(args.event.v) = 0

\* C27 (as stated): lambda_handler answers 200 only when the resolution produced
\* a record (prompt, command, payload); a missing request gives 400 and a missing
\* API key 403, both without an LLM call; a failed LLM call, a response without
\* a usable tool call and a failed tool execution all give a status other than
\* 200.
C27_Status200OnlyForRecord ==
    (entry = "lambda_handler" /\ pc = "done") =>
        /\ out.val.statusCode = 200 => IsRecord(prev)
        /\ NoRequest => (out.val.statusCode = 400 /\ llm = <<>>)
        /\ (~NoRequest /\ ~args.api_key) => (out.val.statusCode = 403 /\ llm = <<>>)
        /\ (\E i \in 1..Len(llm) : ~llm[i].ok) => out.val.statusCode # 200

\* C28 (as stated): every failure of write_to_file is a ValueError (the
\* invalid-record error) or an IOError that names the file; valid JSON that is
\* not an object, such as the JSON-encoded error string main passes on after a
\* failed resolution, is rejected with the ValueError and writes nothing.
C28_WriteFailsWithValueOrIOError ==
    (entry = "write_to_file" /\ out.kind = "raise") =>
        /\ out.val.exc \in {"ValueError", "IOError", "OSError"}
        /\ out.val.exc \in {"IOError", "OSError"} =>
              /\ JsonLoads(args.data).kind = "return"
              /\ JsonLoads(args.data).val.t = "dict"
              /\ out.val.msg = <<"Unable to write to the file",
                                 FileName(args.ts, JsonLoads(args.data).val.v)>>
        /\ (JsonLoads(args.data).kind = "return" /\ JsonLoads(args.data).val.t # "dict") =>
              /\ out.val.exc = "ValueError"
              /\ fs.dir = args.before.dir
              /\ fs.files = args.before.files

\* call_tool_function finds a handler under the name n
Dispatches(n) ==
    CallToolFunction([name |-> n, arguments |-> Dict(<<>>)]).outcome
        # Raise("ValueError", <<"Unknown function", n>>)

\* the handler n cannot be called without the parameter k
Needs(n, k) ==
    CallToolFunction(
        [name |-> n,
         arguments |-> Dict([x \in DOMAIN GoodArgs(n) \ {k} |-> GoodArgs(n)[x]])]).outcome
        = Raise("TypeError", <<"arguments">>)

\* C29: the names of tools_list() are the five intents, each once, in the order
\* follow_up_then, note_to_self, save_url, va_request, journaling_topic; they are
\* the names call_tool_function dispatches, and no other name a tool call
\* carries is dispatched; each entry lists as required exactly the parameters the
\* handler cannot be called without, in signature order, and types every
\* property 'string'.
C29_ManifestMatchesDispatch ==
    entry = "tools_list" =>
        /\ [i \in 1..Len(out.val) |-> out.val[i].function.name]
              = <<"follow_up_then", "note_to_self", "save_url", "va_request",
                  "journaling_topic">>
        /\ \A n \in {c.name : c \in ToolCalls \cup ShapedCalls}
                    \cup {out.val[i].function.name : i \in 1..Len(out.val)} :
              Dispatches(n) <=> \E i \in 1..Len(out.val) : out.val[i].function.name = n
        /\ \A i \in 1..Len(out.val) :
              LET f == out.val[i].function
              IN  /\ Range(f.parameters.required)
                        = {k \in DOMAIN f.parameters.properties : Needs(f.name, k)}
                  /\ Len(f.parameters.required) = Cardinality(Range(f.parameters.required))
                  /\ DOMAIN f.parameters.properties = DOMAIN GoodArgs(f.name)
                  /\ f.parameters.required[1] = "prompt"
                  /\ \A k \in DOMAIN f.parameters.properties :
                        f.parameters.properties[k].type = "string"

\* C29 witness: tools_list() was called and its fourth entry is va_request with
\* prompt, title and request required.
C29_Witness ==
    /\ entry = "tools_list"
    /\ Len(out.val) = 5
    /\ out.val[4].function.name = "va_request"
    /\ out.val[4].function.parameters.required = <<"prompt", "title", "request">>

\* C30 (as stated): for every input string the date follow_up_then stores holds
\* no 'this', no space, dot, comma or semicolon and no colon, so that every
\* non-empty stored date is one validate_date_format accepts.
C30_NormalizedDateIsClean ==
    entry = "follow_up_then_sync" =>
        /\ \A j \in 1..(Len(StoredDate(out)) - 3) :
              SubSeq(StoredDate(out), j, j + 3) # <<"t","h","i","s">>
        /\ \A j \in 1..Len(StoredDate(out)) :
              StoredDate(out)[j] \notin {" ", ".", ",", ";", ":"}
        /\ Len(StoredDate(out)) > 0 => validate_date_format(StoredDate(out)) = Ok

====
